---- MODULE Spec2Model ----
(***************************************************************************)
(* Lease-based advisory file locks of rins_hooks (hooks/file-locking).     *)
(*                                                                         *)
(* The lock directory (.agent-locks) is a map from lock-file names to      *)
(* file contents, the activity feed (.agent-activity/live-feed.jsonl) is a *)
(* sequence of entries, Date.now() is the clock `now` in milliseconds and  *)
(* crypto.randomUUID() is a counter of fresh tokens.                       *)
(*                                                                         *)
(* Spec      every operation of LockUtils, FileLockManager.execute and the *)
(*           standalone hook (index.js main) runs atomically.              *)
(* SpecRace  LockUtils.createLock runs one filesystem call at a time, for  *)
(*           several processes on one path.                                *)
(* SpecGate  the PreToolUse hooks run one call of LockUtils at a time.     *)
(* SpecLive  createLock, releaseLock and the sweeps run one filesystem     *)
(*           call at a time, under weak fairness of each process.          *)
(* SpecFaults, SpecFeed, SpecWrite, SpecTorn                               *)
(*           the operations on a filesystem whose calls fail or whose lock *)
(*           files are left empty.                                         *)
(* SpecKeys  createLock and releaseLock on paths that share lock-file      *)
(*           names.                                                        *)
(* SpecHooks, SpecAdmin                                                    *)
(*           the hooks in the sessions that start them, next to the        *)
(*           administrator's commands.                                     *)
(***************************************************************************)
EXTENDS Integers, Sequences, FiniteSets, TLC

VARIABLES now, store, journal, nextLockId, last, writer, granted,
          pc, obs, lk, fd, ret, lockIno, tmpIno, inode, lastRename

atomVars == <<store, last, writer, granted>>
raceVars == <<pc, obs, lk, fd, ret, lockIno, tmpIno, inode, lastRename>>
vars == <<now, store, journal, nextLockId, last, writer, granted,
          pc, obs, lk, fd, ret, lockIno, tmpIno, inode, lastRename>>

\* ---------------------------------------------------------------- bounds

\* The clock takes the values b * defaultTimeout + a, a <= MaxJitter, b <= MaxLeases.
MaxJitter == 1
MaxLeases == 1
\* crypto.randomUUID() is drawn at most MaxLocks times.
MaxLocks == 2
\* The lease duration a direct caller of createLock passes, in milliseconds.
ShortLease == 1
\* The entries of the feed after which no operation under faults is run.
MaxFeed == 4
\* The entries of the feed after which no hook of the sessions is run.
MaxHookFeed == 3

\* crypto.randomUUID() is drawn at most MaxPairLocks times by the two hooks
\* that run side by side.
MaxPairLocks == 6
\* The entries of the two feeds after which no hook is run side by side.
MaxPairFeed == 6

\* ------------------------------------------------------------ JS values

Undefined == "undefined"
Null == "null"
Falsy(v) == v \in {Undefined, Null, ""}
\* a || b
Or(a, b) == IF Falsy(a) THEN b ELSE a
\* a default parameter value applies to undefined only
Default(v, d) == IF v = Undefined THEN d ELSE v
\* Math.ceil(a / b) for b > 0
\* Variant: the quotient is rounded down.
Ceil_floor(a, b) == a \div b

Ceil(a, b) == IF a >= 0 THEN (a + b - 1) \div b ELSE -((-a) \div b)

\* JSON.stringify drops the properties whose value is undefined.
JSONstringify(o) ==
    [f \in {g \in DOMAIN o :
                ~(g \in {"agent_id", "operation", "session_id"} /\ o[g] = Undefined)}
        |-> o[f]]
\* What writeFileSync leaves between opening (truncating) the file and writing it.
EmptyText == [text |-> ""]
\* JSON.parse throws on it.
JSONparseOK(c) == c # EmptyText

\* ------------------------------------------------------------ inputs

Agents == {"a1", "a2"}

\* File paths are strings, modelled as sequences of characters.
PathAB == <<"a", "/", "b">>
PathA_B == <<"a", "-", "b">>
PathX == <<".", "/", "x">>
PathEnv == <<".", "e", "n", "v">>
NoPath == <<>>
Paths == {PathAB, PathX}
GatePaths == Paths \cup {PathEnv}
ToolNames == {"Edit", "Bash"}
TickSteps == {1, 10 * 60 * 1000}
Sessions == Agents
Timeouts == {0, ShortLease}

\* ------------------------------------------------------------ strings

EndsWith(s, suf) ==
    /\ Len(s) >= Len(suf)
    /\ SubSeq(s, Len(s) - Len(suf) + 1, Len(s)) = suf
Contains(s, sub) ==
    \E i \in 1..(Len(s) - Len(sub) + 1) : SubSeq(s, i, i + Len(sub) - 1) = sub

RECURSIVE DropSlashes(_)
DropSlashes(s) == IF Len(s) > 0 /\ s[1] = "/" THEN DropSlashes(Tail(s)) ELSE s

\* .replace(/^\.?\/+/, '')
StripLeading(s) ==
    LET q == IF Len(s) > 0 /\ s[1] = "." THEN Tail(s) ELSE s
    IN  IF Len(q) > 0 /\ q[1] = "/" THEN DropSlashes(q) ELSE s

ReplaceChar(c) ==
    IF c \in {"/", "\\"} THEN "-"
    ELSE IF c \in {"<", ">", ":", "\"", "|", "?", "*"} THEN "_"
    ELSE c

pathToLockName(filePath) ==
    LET s == StripLeading(filePath)
    IN  [i \in 1..Len(s) |-> ReplaceChar(s[i])] \o <<".", "l", "o", "c", "k">>

Keys == {pathToLockName(p) : p \in Paths}

\* ------------------------------------------------------------ directory

Put(dir, k, c) == [x \in (DOMAIN dir) \cup {k} |-> IF x = k THEN c ELSE dir[x]]
Unlink(dir, k) == [x \in (DOMAIN dir) \ {k} |-> dir[x]]
EmptyDir == [x \in {} |-> EmptyText]

\* fs.readdirSync returns the names in an order the platform chooses.
Listings(dir) ==
    LET n == Cardinality(DOMAIN dir)
    IN  {s \in [1..n -> DOMAIN dir] : \A i, j \in 1..n : i # j => s[i] # s[j]}

\* fault: the filesystem call that fails while the operation runs ("none": none).
World(s, j, n) == [store |-> s, journal |-> j, nextId |-> n, fault |-> "none"]

\* "journal": appendFileSync on the feed throws; "read": readFileSync on a lock
\* file throws; "write": writeFileSync on the temporary file throws;
\* "readdir": readdirSync throws; "nodir": the lock directory does not exist and
\* cannot be made.
Faults == {"none", "journal", "read", "write", "readdir", "nodir"}
Failing(w, f) == [w EXCEPT !.fault = f]
NoRead(w) == w.fault \in {"read", "nodir"}
NoWrite(w) == w.fault \in {"write", "nodir"}
NoList(w) == w.fault \in {"readdir", "nodir"}

\* ------------------------------------------------------------ LockUtils

defaultTimeout == 10 * 60 * 1000

\* Variant: a record counts as expired from its deadline on.
Expired_atDeadline(t, lockData) == t >= lockData.expires_at

\* Variant: a lock never expires.
Expired_never(t, lockData) == FALSE

Expired(t, lockData) == t > lockData.expires_at

\* The entry's timestamp is left out: nothing reads the feed back.
\* Variant: the feed is written anew with the one entry.
logActivity_overwrite(w, t, action, agentId, filePath, details) ==
    IF w.fault = "journal" THEN w
    ELSE [w EXCEPT !.journal =
             <<details @@ [action |-> action, agent_id |-> agentId,
                           file_path |-> filePath]>>]

logActivity(w, t, action, agentId, filePath, details) ==
    IF w.fault = "journal" THEN w
    ELSE [w EXCEPT !.journal = Append(@,
             details @@ [action |-> action, agent_id |-> agentId,
                         file_path |-> filePath])]

\* Variant: the ownership of the record is not verified.
releaseLock_noVerify(w, t, filePath, agentId) ==
    LET k == pathToLockName(filePath)
    IN  IF k \notin DOMAIN w.store
        THEN [w |-> w, res |-> TRUE]
        ELSE [w |-> logActivity([w EXCEPT !.store = Unlink(@, k)], t,
                                "lock_released", agentId, filePath, <<>>),
              res |-> TRUE]

\* Variant: a release that finds no lock file reports it.
releaseLock_absentFalse(w, t, filePath, agentId) ==
    LET k == pathToLockName(filePath)
    IN  IF k \notin DOMAIN w.store
        THEN [w |-> w, res |-> FALSE]
        ELSE IF ~Falsy(agentId) /\ ~JSONparseOK(w.store[k])
        THEN [w |-> w, res |-> FALSE]
        ELSE IF ~Falsy(agentId) /\ w.store[k].agent_id # agentId
        THEN [w |-> w, res |-> FALSE]
        ELSE [w |-> logActivity([w EXCEPT !.store = Unlink(@, k)], t,
                                "lock_released", agentId, filePath, <<>>),
              res |-> TRUE]

\* Variant: the release is logged and reported, the lock file stays.
releaseLock_keepsFile(w, t, filePath, agentId) ==
    LET k == pathToLockName(filePath)
    IN  IF k \notin DOMAIN w.store \/ w.fault = "nodir"
        THEN [w |-> w, res |-> TRUE]
        ELSE IF ~Falsy(agentId) /\ (NoRead(w) \/ ~JSONparseOK(w.store[k]))
        THEN [w |-> w, res |-> FALSE]
        ELSE IF ~Falsy(agentId) /\ w.store[k].agent_id # agentId
        THEN [w |-> w, res |-> FALSE]
        ELSE [w |-> logActivity(w, t, "lock_released", agentId, filePath, <<>>),
              res |-> TRUE]

releaseLock(w, t, filePath, agentId) ==
    LET k == pathToLockName(filePath)
    IN  IF k \notin DOMAIN w.store \/ w.fault = "nodir"
        THEN [w |-> w, res |-> TRUE]
        ELSE IF ~Falsy(agentId) /\ (NoRead(w) \/ ~JSONparseOK(w.store[k]))
        THEN [w |-> w, res |-> FALSE]
        ELSE IF ~Falsy(agentId) /\ w.store[k].agent_id # agentId
        THEN [w |-> w, res |-> FALSE]
        ELSE [w |-> logActivity([w EXCEPT !.store = Unlink(@, k)], t,
                                "lock_released", agentId, filePath, <<>>),
              res |-> TRUE]

NoLock == [agent_id |-> Null]

\* Variant: a lock file that cannot be parsed counts as the lock of someone else.
isLocked_tornHeld(w, t, filePath) ==
    LET k == pathToLockName(filePath)
    IN  IF k \notin DOMAIN w.store \/ w.fault = "nodir"
        THEN [w |-> w, found |-> FALSE, lock |-> NoLock]
        ELSE IF NoRead(w) \/ ~JSONparseOK(w.store[k])
        THEN [w |-> w, found |-> TRUE, lock |-> NoLock]
        ELSE IF Expired(t, w.store[k])
        THEN [w |-> releaseLock(w, t, filePath, Null).w,
              found |-> FALSE, lock |-> NoLock]
        ELSE [w |-> w, found |-> TRUE, lock |-> w.store[k]]

isLocked(w, t, filePath) ==
    LET k == pathToLockName(filePath)
    IN  IF k \notin DOMAIN w.store \/ w.fault = "nodir"
        THEN [w |-> w, found |-> FALSE, lock |-> NoLock]
        ELSE IF NoRead(w) \/ ~JSONparseOK(w.store[k])
        THEN [w |-> w, found |-> FALSE, lock |-> NoLock]
        ELSE IF Expired(t, w.store[k])
        THEN [w |-> releaseLock(w, t, filePath, Null).w,
              found |-> FALSE, lock |-> NoLock]
        ELSE [w |-> w, found |-> TRUE, lock |-> w.store[k]]

\* Variant: the timeout is taken for seconds.
NewLock_seconds(t, filePath, agentId, operation, sessionId, timeout, id) ==
    [agent_id |-> agentId, file_path |-> filePath, locked_at |-> t,
     operation |-> operation, session_id |-> sessionId,
     expires_at |-> t + timeout * 1000, lock_id |-> id]

NewLock(t, filePath, agentId, operation, sessionId, timeout, id) ==
    [agent_id |-> agentId, file_path |-> filePath, locked_at |-> t,
     operation |-> operation, session_id |-> sessionId,
     expires_at |-> t + timeout, lock_id |-> id]

\* Variant: the holder of the existing lock is not compared with the caller.
createLock_noOwnerCheck(w, t, filePath, agentId, operation0, sessionId0, timeout0) ==
    LET operation == Default(operation0, "editing")
        sessionId == Default(sessionId0, "unknown")
        timeout == IF timeout0 = 0 THEN 10 * 60 * 1000 ELSE timeout0
        e == isLocked(w, t, filePath)
        lockData == [agent_id |-> agentId, file_path |-> filePath,
                     locked_at |-> t, operation |-> operation,
                     session_id |-> sessionId, expires_at |-> t + timeout,
                     lock_id |-> e.w.nextId]
        written == [e.w EXCEPT
                       !.store = Put(@, pathToLockName(filePath),
                                     JSONstringify(lockData)),
                       !.nextId = @ + 1]
    IN  [w |-> logActivity(written, t, "lock_created", agentId, filePath,
                           [operation |-> operation,
                            session_id |-> sessionId]),
         res |-> TRUE]

\* Variant: an agent is denied while another agent holds a lock on any file.
createLock_oneHolder(w, t, filePath, agentId, operation0, sessionId0, timeout0) ==
    LET operation == Default(operation0, "editing")
        sessionId == Default(sessionId0, "unknown")
        timeout == IF timeout0 = 0 THEN defaultTimeout ELSE timeout0
        e == isLocked(w, t, filePath)
        lockData == NewLock(t, filePath, agentId, operation, sessionId,
                            timeout, e.w.nextId)
        written == [e.w EXCEPT
                       !.store = Put(@, pathToLockName(filePath),
                                     JSONstringify(lockData)),
                       !.nextId = @ + 1]
    IN  IF \/ e.found /\ e.lock.agent_id # agentId
           \/ \E k \in DOMAIN e.w.store :
                 JSONparseOK(e.w.store[k]) /\ e.w.store[k].agent_id # agentId
        THEN [w |-> e.w, res |-> FALSE]
        ELSE IF NoWrite(e.w)
        THEN [w |-> e.w, res |-> FALSE]
        ELSE [w |-> logActivity(written, t, "lock_created", agentId, filePath,
                                [operation |-> operation,
                                 session_id |-> sessionId]),
              res |-> TRUE]

\* Variant: a failing append reaches the catch of createLock.
createLock_logThrows(w, t, filePath, agentId, operation0, sessionId0, timeout0) ==
    LET operation == Default(operation0, "editing")
        sessionId == Default(sessionId0, "unknown")
        timeout == IF timeout0 = 0 THEN defaultTimeout ELSE timeout0
        e == isLocked(w, t, filePath)
        lockData == NewLock(t, filePath, agentId, operation, sessionId,
                            timeout, e.w.nextId)
        written == [e.w EXCEPT
                       !.store = Put(@, pathToLockName(filePath),
                                     JSONstringify(lockData)),
                       !.nextId = @ + 1]
    IN  IF e.found /\ e.lock.agent_id # agentId
        THEN [w |-> e.w, res |-> FALSE]
        ELSE IF NoWrite(e.w)
        THEN [w |-> e.w, res |-> FALSE]
        ELSE IF e.w.fault = "journal"
        THEN [w |-> written, res |-> FALSE]
        ELSE [w |-> logActivity(written, t, "lock_created", agentId, filePath,
                                [operation |-> operation,
                                 session_id |-> sessionId]),
              res |-> TRUE]

createLock(w, t, filePath, agentId, operation0, sessionId0, timeout0) ==
    LET operation == Default(operation0, "editing")
        sessionId == Default(sessionId0, "unknown")
        timeout == IF timeout0 = 0 THEN defaultTimeout ELSE timeout0
        e == isLocked(w, t, filePath)
        lockData == NewLock(t, filePath, agentId, operation, sessionId,
                            timeout, e.w.nextId)
        written == [e.w EXCEPT
                       !.store = Put(@, pathToLockName(filePath),
                                     JSONstringify(lockData)),
                       !.nextId = @ + 1]
    IN  IF e.found /\ e.lock.agent_id # agentId
        THEN [w |-> e.w, res |-> FALSE]
        ELSE IF NoWrite(e.w)
        THEN [w |-> e.w, res |-> FALSE]
        ELSE [w |-> logActivity(written, t, "lock_created", agentId, filePath,
                                [operation |-> operation,
                                 session_id |-> sessionId]),
              res |-> TRUE]

EndsWithLock(name) == EndsWith(name, <<".", "l", "o", "c", "k">>)

RECURSIVE releaseAllLoop(_, _, _, _, _)
releaseAllLoop(w, t, agentId, lockFiles, released) ==
    IF lockFiles = <<>> THEN [w |-> w, res |-> released]
    ELSE LET k == Head(lockFiles)
             rest == Tail(lockFiles)
         IN  IF ~EndsWithLock(k) \/ k \notin DOMAIN w.store
                \/ NoRead(w) \/ ~JSONparseOK(w.store[k])
             THEN releaseAllLoop(w, t, agentId, rest, released)
             ELSE IF w.store[k].agent_id = agentId
             THEN releaseAllLoop(
                      logActivity([w EXCEPT !.store = Unlink(@, k)], t,
                                  "lock_released", agentId,
                                  w.store[k].file_path,
                                  [reason |-> "agent_cleanup"]),
                      t, agentId, rest, released + 1)
             ELSE releaseAllLoop(w, t, agentId, rest, released)

\* Variant: expired locks are passed over.
releaseAllLocks_liveOnly(w, t, agentId, lockFiles) ==
    releaseAllLoop(w, t, agentId,
                   SelectSeq(IF NoList(w) THEN <<>> ELSE lockFiles,
                             LAMBDA k : k \in DOMAIN w.store
                                        /\ ~Expired(t, w.store[k])),
                   0)

releaseAllLocks(w, t, agentId, lockFiles) ==
    releaseAllLoop(w, t, agentId, IF NoList(w) THEN <<>> ELSE lockFiles, 0)

RECURSIVE getAllLoop(_, _, _, _)
getAllLoop(w, t, lockFiles, locks) ==
    IF lockFiles = <<>> THEN [w |-> w, res |-> locks]
    ELSE LET k == Head(lockFiles)
             rest == Tail(lockFiles)
         IN  IF ~EndsWithLock(k) \/ k \notin DOMAIN w.store
                \/ NoRead(w) \/ ~JSONparseOK(w.store[k])
             THEN getAllLoop(w, t, rest, locks)
             ELSE IF Expired(t, w.store[k])
             THEN getAllLoop([w EXCEPT !.store = Unlink(@, k)], t, rest, locks)
             ELSE getAllLoop(w, t, rest, Append(locks, w.store[k]))

getAllLocks(w, t, lockFiles) ==
    getAllLoop(w, t, IF NoList(w) THEN <<>> ELSE lockFiles, <<>>)

RECURSIVE cleanupLoop(_, _, _, _)
cleanupLoop(w, t, lockFiles, cleaned) ==
    IF lockFiles = <<>> THEN [w |-> w, res |-> cleaned]
    ELSE LET k == Head(lockFiles)
             rest == Tail(lockFiles)
         IN  IF ~EndsWithLock(k) \/ k \notin DOMAIN w.store
                \/ NoRead(w) \/ ~JSONparseOK(w.store[k])
             THEN cleanupLoop(w, t, rest, cleaned)
             ELSE IF Expired(t, w.store[k])
             THEN cleanupLoop(
                      logActivity([w EXCEPT !.store = Unlink(@, k)], t,
                                  "lock_expired", w.store[k].agent_id,
                                  w.store[k].file_path, <<>>),
                      t, rest, cleaned + 1)
             ELSE cleanupLoop(w, t, rest, cleaned)

\* Variant: the sweep removes every lock file.
cleanupExpiredLocks_all(w, t, lockFiles) ==
    [w |-> [w EXCEPT !.store = EmptyDir], res |-> Len(lockFiles)]

\* Variant: the count is that of the lock files looked at.
cleanupExpiredLocks_scanned(w, t, lockFiles) ==
    [w |-> cleanupLoop(w, t, IF NoList(w) THEN <<>> ELSE lockFiles, 0).w,
     res |-> Len(lockFiles)]

cleanupExpiredLocks(w, t, lockFiles) ==
    cleanupLoop(w, t, IF NoList(w) THEN <<>> ELSE lockFiles, 0)

\* ------------------------------------------------------------ FileLockManager

extractFilePath(toolInput) == toolInput.file_path

extractAgentId(env, input) ==
    Or(env, Or(input.agent_id, Or(input.session_id, "unknown-agent")))

getOperationType(toolName) ==
    CASE toolName \in {"Edit", "MultiEdit"} -> "editing"
      [] toolName = "Write" -> "writing"
      [] OTHER -> "modifying"

shouldExcludeFile(filePath) ==
    \/ EndsWith(filePath, <<".", "l", "o", "g">>)
    \/ EndsWith(filePath, <<".", "t", "m", "p">>)
    \/ EndsWith(filePath, <<".", "t", "e", "m", "p">>)
    \/ EndsWith(filePath, <<".", "l", "o", "c", "k">>)
    \/ Contains(filePath, <<".", "e", "n", "v">>)
    \/ Contains(filePath, <<".", "g", "i", "t", "/">>)
    \/ Contains(filePath, <<".", "a", "g", "e", "n", "t", "-">>)
    \/ Contains(filePath, <<"n", "o", "d", "e", "_", "m", "o", "d", "u", "l", "e", "s", "/">>)
    \/ EndsWith(filePath, <<".", "p", "y", "c">>)
    \/ Contains(filePath, <<"_", "_", "p", "y", "c", "a", "c", "h", "e", "_", "_", "/">>)

IsModifyTool(toolName) == toolName \in {"Edit", "Write", "MultiEdit"}

\* The response of execute: decision ("approve", "block" or undefined), what its
\* reason says (reason), and for a block the owner and minutes the reason names.
Response(w, decision, reason, owner, minutes) ==
    [w |-> w, decision |-> decision, reason |-> reason,
     owner |-> owner, minutes |-> minutes]

\* Variant: a holder that asks again gets a new lease.
execute_renew(w, t, env, input, lockFiles) ==
    LET filePath == extractFilePath(input.tool_input)
        agentId == extractAgentId(env, input)
        operation == getOperationType(input.tool_name)
        c == cleanupExpiredLocks(w, t, lockFiles)
        e == isLocked(c.w, t, filePath)
        timeRemaining == Ceil(e.lock.expires_at - t, 60 * 1000)
        l == createLock(e.w, t, filePath, agentId, operation,
                        input.session_id, 0)
    IN  IF ~IsModifyTool(input.tool_name) THEN Response(w, Undefined, "", Null, 0)
        ELSE IF filePath = NoPath THEN Response(w, Undefined, "", Null, 0)
        ELSE IF shouldExcludeFile(filePath) THEN Response(w, Undefined, "", Null, 0)
        ELSE IF e.found /\ e.lock.agent_id = agentId
        THEN Response(l.w, "approve", "already locked", Null, 0)
        ELSE IF e.found
        THEN Response(e.w, "block", "locked", e.lock.agent_id, timeRemaining)
        ELSE IF l.res
        THEN Response(l.w, "approve", "acquired", Null, 0)
        ELSE Response(l.w, Undefined, "warning", Null, 0)

\* Variant: an existing lock is taken for the caller's own.
execute_anyAgent(w, t, env, input, lockFiles) ==
    LET filePath == extractFilePath(input.tool_input)
        agentId == extractAgentId(env, input)
        operation == getOperationType(input.tool_name)
        c == cleanupExpiredLocks(w, t, lockFiles)
        e == isLocked(c.w, t, filePath)
        l == createLock(e.w, t, filePath, agentId, operation,
                        input.session_id, 0)
    IN  IF ~IsModifyTool(input.tool_name) THEN Response(w, Undefined, "", Null, 0)
        ELSE IF filePath = NoPath THEN Response(w, Undefined, "", Null, 0)
        ELSE IF shouldExcludeFile(filePath) THEN Response(w, Undefined, "", Null, 0)
        ELSE IF e.found
        THEN Response(e.w, "approve", "already locked", Null, 0)
        ELSE IF l.res
        THEN Response(l.w, "approve", "acquired", Null, 0)
        ELSE Response(l.w, Undefined, "warning", Null, 0)

\* Variant: a lock that could not be created blocks the operation.
execute_failClosed(w, t, env, input, lockFiles) ==
    LET filePath == extractFilePath(input.tool_input)
        agentId == extractAgentId(env, input)
        operation == getOperationType(input.tool_name)
        c == cleanupExpiredLocks(w, t, lockFiles)
        e == isLocked(c.w, t, filePath)
        timeRemaining == Ceil(e.lock.expires_at - t, 60 * 1000)
        l == createLock(e.w, t, filePath, agentId, operation,
                        input.session_id, 0)
    IN  IF ~IsModifyTool(input.tool_name) THEN Response(w, Undefined, "", Null, 0)
        ELSE IF filePath = NoPath THEN Response(w, Undefined, "", Null, 0)
        ELSE IF shouldExcludeFile(filePath) THEN Response(w, Undefined, "", Null, 0)
        ELSE IF e.found /\ e.lock.agent_id = agentId
        THEN Response(e.w, "approve", "already locked", Null, 0)
        ELSE IF e.found
        THEN Response(e.w, "block", "locked", e.lock.agent_id, timeRemaining)
        ELSE IF l.res
        THEN Response(l.w, "approve", "acquired", Null, 0)
        ELSE Response(l.w, "block", "locked", Null, 0)

\* Variant: the expired locks are not cleaned up first.
execute_noCleanup(w, t, env, input, lockFiles) ==
    LET filePath == extractFilePath(input.tool_input)
        agentId == extractAgentId(env, input)
        operation == getOperationType(input.tool_name)
        e == isLocked(w, t, filePath)
        timeRemaining == Ceil(e.lock.expires_at - t, 60 * 1000)
        l == createLock(e.w, t, filePath, agentId, operation,
                        input.session_id, 0)
    IN  IF ~IsModifyTool(input.tool_name) THEN Response(w, Undefined, "", Null, 0)
        ELSE IF filePath = NoPath THEN Response(w, Undefined, "", Null, 0)
        ELSE IF shouldExcludeFile(filePath) THEN Response(w, Undefined, "", Null, 0)
        ELSE IF e.found /\ e.lock.agent_id = agentId
        THEN Response(e.w, "approve", "already locked", Null, 0)
        ELSE IF e.found
        THEN Response(e.w, "block", "locked", e.lock.agent_id, timeRemaining)
        ELSE IF l.res
        THEN Response(l.w, "approve", "acquired", Null, 0)
        ELSE Response(l.w, Undefined, "warning", Null, 0)

execute(w, t, env, input, lockFiles) ==
    LET filePath == extractFilePath(input.tool_input)
        agentId == extractAgentId(env, input)
        operation == getOperationType(input.tool_name)
        c == cleanupExpiredLocks(w, t, lockFiles)
        e == isLocked(c.w, t, filePath)
        timeRemaining == Ceil(e.lock.expires_at - t, 60 * 1000)
        l == createLock(e.w, t, filePath, agentId, operation,
                        input.session_id, 0)
    IN  IF ~IsModifyTool(input.tool_name) THEN Response(w, Undefined, "", Null, 0)
        ELSE IF filePath = NoPath THEN Response(w, Undefined, "", Null, 0)
        ELSE IF shouldExcludeFile(filePath) THEN Response(w, Undefined, "", Null, 0)
        ELSE IF e.found /\ e.lock.agent_id = agentId
        THEN Response(e.w, "approve", "already locked", Null, 0)
        ELSE IF e.found
        THEN Response(e.w, "block", "locked", e.lock.agent_id, timeRemaining)
        ELSE IF l.res
        THEN Response(l.w, "approve", "acquired", Null, 0)
        ELSE Response(l.w, Undefined, "warning", Null, 0)

\* process.exit of outputResult
outputResult(result) == IF result.decision = "block" THEN 2 ELSE 0

\* ------------------------------------------------------------ index.js

lockTimeout == 600

ix_isLocked(w, t, filePath) ==
    LET k == pathToLockName(filePath)
    IN  IF k \notin DOMAIN w.store \/ w.fault = "nodir"
        THEN [w |-> w, found |-> FALSE, lock |-> NoLock]
        ELSE IF NoRead(w) \/ ~JSONparseOK(w.store[k])
        THEN [w |-> w, found |-> FALSE, lock |-> NoLock]
        ELSE IF Expired(t, w.store[k])
        THEN [w |-> [w EXCEPT !.store = Unlink(@, k)],
              found |-> FALSE, lock |-> NoLock]
        ELSE [w |-> w, found |-> TRUE, lock |-> w.store[k]]

ix_createLock(w, t, filePath, agentId, operation, sessionId) ==
    LET e == ix_isLocked(w, t, filePath)
        lockData == NewLock(t, filePath, agentId, operation, sessionId,
                            lockTimeout * 1000, e.w.nextId)
        written == [e.w EXCEPT
                       !.store = Put(@, pathToLockName(filePath),
                                     JSONstringify(lockData)),
                       !.nextId = @ + 1]
    IN  IF e.found /\ e.lock.agent_id # agentId
        THEN [w |-> e.w, res |-> FALSE]
        ELSE IF NoWrite(e.w)
        THEN [w |-> e.w, res |-> FALSE]
        ELSE [w |-> logActivity(written, t, "lock_created", agentId, filePath,
                                [operation |-> operation,
                                 session_id |-> sessionId]),
              res |-> TRUE]

\* `session-${process.ppid}`
\* Variant: the agent is the session of the parent process, whatever the input.
ix_extractAgentId_ppid(ppid, input) == ppid

ix_extractAgentId(ppid, input) == Or(input.session_id, ppid)

detectHookPhase(input) == Or(input.hook_event_name, "PreToolUse")

ix_releaseLock(w, t, filePath, agentId) ==
    LET e == ix_isLocked(w, t, filePath)
    IN  IF e.found /\ e.lock.agent_id = agentId
        THEN [w |-> logActivity(
                        [e.w EXCEPT !.store = Unlink(@, pathToLockName(filePath))],
                        t, "lock_released", agentId, filePath,
                        [operation |-> "completed"]),
              res |-> TRUE]
        ELSE [w |-> e.w, res |-> FALSE]

ix_cleanupExpiredLocks(w, t, lockFiles) ==
    cleanupLoop(w, t, IF NoList(w) THEN <<>> ELSE lockFiles, 0).w

toLowerCase(toolName) ==
    CASE toolName = "Edit" -> "edit"
      [] toolName = "Write" -> "write"
      [] toolName = "MultiEdit" -> "multiedit"
      [] OTHER -> "bash"

\* The run of main: the exit code, the console message (said) and, for exit code 2,
\* the owner and minutes the message names.
Exit(w, code, said, owner, minutes) ==
    [w |-> w, code |-> code, said |-> said, owner |-> owner, minutes |-> minutes]

ix_main(w, t, ppid, input, lockFiles) ==
    LET filePath == extractFilePath(input.tool_input)
        agentId == ix_extractAgentId(ppid, input)
        operation == toLowerCase(input.tool_name)
        c == ix_cleanupExpiredLocks(w, t, lockFiles)
        r == ix_releaseLock(c, t, filePath, agentId)
        e == ix_isLocked(c, t, filePath)
        timeRemaining == Ceil(e.lock.expires_at - t, 60 * 1000)
        l == ix_createLock(e.w, t, filePath, agentId, operation,
                           input.session_id)
    IN  IF ~IsModifyTool(input.tool_name) THEN Exit(w, 0, "", Null, 0)
        ELSE IF filePath = NoPath THEN Exit(w, 0, "", Null, 0)
        ELSE IF shouldExcludeFile(filePath) THEN Exit(w, 0, "", Null, 0)
        ELSE IF detectHookPhase(input) = "PostToolUse"
        THEN Exit(r.w, 0, IF r.res THEN "released" ELSE "no lock", Null, 0)
        ELSE IF e.found /\ e.lock.agent_id = agentId
        THEN Exit(e.w, 0, "already locked", Null, 0)
        ELSE IF e.found
        THEN Exit(e.w, 2, "locked", e.lock.agent_id, timeRemaining)
        ELSE IF l.res
        THEN Exit(l.w, 0, "acquired", Null, 0)
        ELSE Exit(l.w, 0, "warning", Null, 0)

\* ------------------------------------------------------------ state

\* last: the call of the process that is running, until the process exits. res is
\* what the call returned, owner and minutes what a denial reported, n a returned
\* count or exit code, del whether the lock file of its path was removed.
Op(op, agent, path, res, owner, minutes, n, del) ==
    [op |-> op, agent |-> agent, path |-> path, res |-> res, owner |-> owner,
     minutes |-> minutes, n |-> n, del |-> del, fault |-> "none"]
Idle == Op("idle", Null, NoPath, "", Null, 0, 0, FALSE)

Cur == World(store, journal, nextLockId)

Apply(w) ==
    /\ last = Idle
    /\ w.nextId <= MaxLocks + 1
    /\ store' = w.store
    /\ journal' = w.journal
    /\ nextLockId' = w.nextId

Removed(w, filePath) ==
    /\ pathToLockName(filePath) \in DOMAIN store
    /\ \/ pathToLockName(filePath) \notin DOMAIN w.store
       \/ w.store[pathToLockName(filePath)] # store[pathToLockName(filePath)]

\* writer[k]: the agent of the latest acquisition that wrote a record under k;
\* granted[k]: the agents told that they hold k since that record was written.
Acquired(w, filePath, agentId, ok) ==
    LET k == pathToLockName(filePath)
    IN  IF w.nextId > nextLockId
        THEN /\ writer' = [writer EXCEPT ![k] = agentId]
             /\ granted' = [granted EXCEPT ![k] = {agentId}]
        ELSE IF ok
        THEN /\ writer' = writer
             /\ granted' = [granted EXCEPT ![k] = @ \cup {agentId}]
        ELSE UNCHANGED <<writer, granted>>

HookInput(toolName, filePath, sessionId, phase) ==
    [tool_name |-> toolName, tool_input |-> [file_path |-> filePath],
     session_id |-> sessionId, agent_id |-> Undefined,
     hook_event_name |-> phase]

Init ==
    /\ now = 0
    /\ store = EmptyDir
    /\ journal = <<>>
    /\ nextLockId = 1
    /\ last = Idle
    /\ writer = [k \in Keys |-> Null]
    /\ granted = [k \in Keys |-> {}]
    /\ pc = [a \in Agents |-> "idle"]
    /\ obs = [a \in Agents |-> "none"]
    /\ lk = [a \in Agents |-> NoLock]
    /\ fd = [a \in Agents |-> 0]
    /\ ret = [a \in Agents |-> "none"]
    /\ lockIno = 0
    /\ tmpIno = 0
    /\ inode = <<>>
    /\ lastRename = Null

TickBy(d) ==
    /\ d = 1 => now % defaultTimeout < MaxJitter
    /\ d = defaultTimeout => now \div defaultTimeout < MaxLeases
    /\ now' = now + d

\* ------------------------------------------------------------ atomic operations

Tick ==
    \E d \in TickSteps :
        /\ last = Idle
        /\ TickBy(d)
        /\ UNCHANGED <<store, journal, nextLockId, last, writer, granted>>
        /\ UNCHANGED raceVars

\* lockUtils.createLock(filePath, agentId, undefined, undefined, timeout)
CallCreateLock ==
    \E a \in Agents, p \in Paths, tmo \in Timeouts :
        LET r == createLock(Cur, now, p, a, Undefined, Undefined, tmo)
        IN  /\ Apply(r.w)
            /\ last' = Op("createLock", a, p, IF r.res THEN "true" ELSE "false",
                          Null, 0, tmo, Removed(r.w, p))
            /\ Acquired(r.w, p, a, r.res)
            /\ UNCHANGED now
            /\ UNCHANGED raceVars

\* lockUtils.releaseLock(filePath, agentId)
CallReleaseLock ==
    \E a \in Agents, p \in Paths :
        LET r == releaseLock(Cur, now, p, a)
        IN  /\ Apply(r.w)
            /\ last' = Op("releaseLock", a, p, IF r.res THEN "true" ELSE "false",
                          Null, 0, 0, Removed(r.w, p))
            /\ UNCHANGED <<now, writer, granted>>
            /\ UNCHANGED raceVars

\* LockCleanup.forceRelease(filePath): lockUtils.releaseLock(filePath)
ForceRelease ==
    \E p \in Paths :
        LET r == releaseLock(Cur, now, p, Null)
        IN  /\ Apply(r.w)
            /\ last' = Op("forceRelease", Null, p,
                          IF r.res THEN "true" ELSE "false",
                          Null, 0, 0, Removed(r.w, p))
            /\ UNCHANGED <<now, writer, granted>>
            /\ UNCHANGED raceVars

\* LockCleanup.releaseAgent(agentId): lockUtils.releaseAllLocks(agentId)
ReleaseAgent ==
    \E a \in Agents, lockFiles \in Listings(store) :
        LET r == releaseAllLocks(Cur, now, a, lockFiles)
        IN  /\ Apply(r.w)
            /\ last' = Op("releaseAllLocks", a, NoPath, "", Null, 0, r.res,
                          FALSE)
            /\ UNCHANGED <<now, writer, granted>>
            /\ UNCHANGED raceVars

\* LockCleanup.cleanExpired(): lockUtils.cleanupExpiredLocks()
CleanExpired ==
    \E lockFiles \in Listings(store) :
        LET r == cleanupExpiredLocks(Cur, now, lockFiles)
        IN  /\ Apply(r.w)
            /\ last' = Op("cleanupExpiredLocks", Null, NoPath, "", Null, 0,
                          r.res, FALSE)
            /\ UNCHANGED <<now, writer, granted>>
            /\ UNCHANGED raceVars

\* LockCleanup.showStatus(): lockUtils.getAllLocks()
ShowStatus ==
    \E lockFiles \in Listings(store) :
        LET r == getAllLocks(Cur, now, lockFiles)
        IN  /\ Apply(r.w)
            /\ last' = Op("getAllLocks", Null, NoPath, "", Null, 0,
                          Len(r.res), FALSE)
            /\ UNCHANGED <<now, writer, granted>>
            /\ UNCHANGED raceVars

\* file-lock-manager.js run as the PreToolUse hook
PreToolUse(paths, tools) ==
    \E s \in Sessions, p \in paths, tool \in tools,
       lockFiles \in Listings(store) :
        LET input == HookInput(tool, p, s, "PreToolUse")
            r == execute(Cur, now, Undefined, input, lockFiles)
            code == outputResult(r)
        IN  /\ Apply(r.w)
            /\ last' = Op("execute", extractAgentId(Undefined, input), p,
                          IF code = 2 THEN "block"
                          ELSE IF r.decision = "approve" THEN r.reason
                          ELSE IF r.reason = "" THEN "allow" ELSE r.reason,
                          r.owner, r.minutes, code, Removed(r.w, p))
            /\ Acquired(r.w, p, extractAgentId(Undefined, input),
                        r.decision = "approve")
            /\ UNCHANGED now
            /\ UNCHANGED raceVars

\* index.js run as the PreToolUse or the PostToolUse hook
HookMain(paths, tools) ==
    \E s \in Sessions, p \in paths, tool \in tools,
       phase \in {"PreToolUse", "PostToolUse"},
       lockFiles \in Listings(store) :
        LET input == HookInput(tool, p, s, phase)
            r == ix_main(Cur, now, "session-1", input, lockFiles)
        IN  /\ Apply(r.w)
            /\ last' = Op(IF phase = "PostToolUse" THEN "mainPost" ELSE "main",
                          ix_extractAgentId("session-1", input), p,
                          IF r.code = 2 THEN "block"
                          ELSE IF r.said = "" THEN "allow" ELSE r.said,
                          r.owner, r.minutes, r.code, Removed(r.w, p))
            /\ Acquired(r.w, p, ix_extractAgentId("session-1", input),
                        r.said \in {"acquired", "already locked"})
            /\ UNCHANGED now
            /\ UNCHANGED raceVars

\* The process that made the call exits.
ProcessExit ==
    /\ last # Idle
    /\ last' = Idle
    /\ UNCHANGED <<now, store, journal, nextLockId, writer, granted>>
    /\ UNCHANGED raceVars

\* The class-based implementation: LockUtils, LockCleanup and FileLockManager.
Next ==
    \/ Tick
    \/ ProcessExit
    \/ CallCreateLock
    \/ CallReleaseLock
    \/ ForceRelease
    \/ ReleaseAgent
    \/ CleanExpired
    \/ ShowStatus
    \/ PreToolUse(Paths, {"Edit"})

Spec == Init /\ [][Next]_vars

\* The standalone hook.
NextHook ==
    \/ Tick
    \/ ProcessExit
    \/ HookMain(Paths, {"Edit"})

SpecHook == Init /\ [][NextHook]_vars

\* The acquisitions and releases of both implementations.
NextAll ==
    \/ Tick
    \/ ProcessExit
    \/ CallCreateLock
    \/ CallReleaseLock
    \/ PreToolUse(Paths, {"Edit"})
    \/ HookMain(Paths, {"Edit"})

SpecAll == Init /\ [][NextAll]_vars

\* ------------------------------------------------------------ ActivityBroadcaster

logDetailedActivity(w, activityData) ==
    IF w.fault = "journal" THEN w
    ELSE [w EXCEPT !.journal = Append(@, activityData)]

ab_shouldExcludeFile(filePath) ==
    \/ EndsWith(filePath, <<".", "l", "o", "g">>)
    \/ EndsWith(filePath, <<".", "t", "m", "p">>)
    \/ EndsWith(filePath, <<".", "t", "e", "m", "p">>)
    \/ EndsWith(filePath, <<".", "l", "o", "c", "k">>)
    \/ Contains(filePath, <<".", "a", "g", "e", "n", "t", "-">>)
    \/ Contains(filePath, <<".", "g", "i", "t", "/">>)
    \/ Contains(filePath, <<"n", "o", "d", "e", "_", "m", "o", "d", "u", "l", "e", "s", "/">>)

\* process.env.MCP_AGENT_ID || input.agent_id || input.session_id || 'unknown-agent'
\* Variant: the session id is preferred to the agent id of the input.
ab_extractAgentId_session(env, input) ==
    Or(env, Or(input.session_id, Or(input.agent_id, "unknown-agent")))

\* Variant: no agent id is made up when none is given.
ab_extractAgentId_optional(env, input) ==
    Or(env, Or(input.agent_id, input.session_id))

ab_extractAgentId(env, input) ==
    Or(env, Or(input.agent_id, Or(input.session_id, "unknown-agent")))

\* The run of the PostToolUse hook: released is what its releaseLock returned
\* (FALSE when it made no such call), success the success of its result.  The
\* response details and file statistics of the tool_completed entry are left out.
ab_execute(w, t, env, input) ==
    LET filePath == extractFilePath(input.tool_input)
        agentId == ab_extractAgentId(env, input)
        baseActivity == [action |-> "tool_completed", agent_id |-> agentId,
                         tool_name |-> input.tool_name,
                         session_id |-> input.session_id,
                         file_path |-> filePath]
        logged == logDetailedActivity(w, baseActivity)
        r == releaseLock(logged, t, filePath, agentId)
    IN  IF filePath = NoPath \/ ab_shouldExcludeFile(filePath)
        THEN [w |-> logged, released |-> FALSE, success |-> TRUE]
        ELSE IF ~IsModifyTool(input.tool_name)
        THEN [w |-> logged, released |-> FALSE, success |-> TRUE]
        ELSE IF r.res
        THEN [w |-> logDetailedActivity(r.w,
                        [action |-> "lock_released", agent_id |-> agentId,
                         file_path |-> filePath,
                         reason |-> "operation_completed",
                         tool_name |-> input.tool_name]),
              released |-> TRUE, success |-> TRUE]
        ELSE [w |-> r.w, released |-> FALSE, success |-> TRUE]

\* Variant: the hook fails when it released no lock.
ab_outputResult_strict(result) == IF result.released THEN 0 ELSE 1

\* process.exit of ActivityBroadcaster.outputResult
ab_outputResult(result) == IF result.success THEN 0 ELSE 1

\* ------------------------------------------------------------ operations under faults

FaultPaths == {PathX}

\* The call made and the fault it met.
Outcome(o, f) == [o EXCEPT !.fault = f]

FCreateLock(faults) ==
    \E a \in Agents, p \in FaultPaths, f \in faults :
        LET tmo == 0
            r == createLock(Failing(Cur, f), now, p, a, Undefined, Undefined, tmo)
        IN  /\ Len(journal) < MaxFeed
            /\ Apply(r.w)
            /\ last' = Outcome(Op("createLock", a, p,
                                  IF r.res THEN "true" ELSE "false",
                                  Null, 0, tmo, Removed(r.w, p)), f)
            /\ Acquired(r.w, p, a, r.res)
            /\ UNCHANGED now
            /\ UNCHANGED raceVars

FReleaseLock(faults) ==
    \E a \in Agents, p \in FaultPaths, f \in faults :
        LET r == releaseLock(Failing(Cur, f), now, p, a)
        IN  /\ Len(journal) < MaxFeed
            /\ Apply(r.w)
            /\ last' = Outcome(Op("releaseLock", a, p,
                                  IF r.res THEN "true" ELSE "false",
                                  Null, 0, 0, Removed(r.w, p)), f)
            /\ UNCHANGED <<now, writer, granted>>
            /\ UNCHANGED raceVars

FReleaseAgent(faults) ==
    \E a \in Agents, lockFiles \in Listings(store), f \in faults :
        LET r == releaseAllLocks(Failing(Cur, f), now, a, lockFiles)
        IN  /\ Len(journal) < MaxFeed
            /\ Apply(r.w)
            /\ last' = Outcome(Op("releaseAllLocks", a, NoPath, "", Null, 0,
                                  r.res, FALSE), f)
            /\ UNCHANGED <<now, writer, granted>>
            /\ UNCHANGED raceVars

FCleanExpired(faults) ==
    \E lockFiles \in Listings(store), f \in faults :
        LET r == cleanupExpiredLocks(Failing(Cur, f), now, lockFiles)
        IN  /\ Len(journal) < MaxFeed
            /\ Apply(r.w)
            /\ last' = Outcome(Op("cleanupExpiredLocks", Null, NoPath, "", Null,
                                  0, r.res, FALSE), f)
            /\ UNCHANGED <<now, writer, granted>>
            /\ UNCHANGED raceVars

FShowStatus(faults) ==
    \E lockFiles \in Listings(store), f \in faults :
        LET r == getAllLocks(Failing(Cur, f), now, lockFiles)
        IN  /\ Len(journal) < MaxFeed
            /\ Apply(r.w)
            /\ last' = Outcome(Op("getAllLocks", Null, NoPath, "", Null, 0,
                                  Len(r.res), FALSE), f)
            /\ UNCHANGED <<now, writer, granted>>
            /\ UNCHANGED raceVars

FPreToolUse(faults) ==
    \E s \in Sessions, p \in FaultPaths, f \in faults,
       lockFiles \in Listings(store) :
        LET input == HookInput("Edit", p, s, "PreToolUse")
            r == execute(Failing(Cur, f), now, Undefined, input, lockFiles)
            code == outputResult(r)
        IN  /\ Len(journal) < MaxFeed
            /\ Apply(r.w)
            /\ last' = Outcome(Op("execute", extractAgentId(Undefined, input), p,
                                  IF code = 2 THEN "block"
                                  ELSE IF r.decision = "approve" THEN r.reason
                                  ELSE IF r.reason = "" THEN "allow"
                                  ELSE r.reason,
                                  r.owner, r.minutes, code, Removed(r.w, p)), f)
            /\ Acquired(r.w, p, extractAgentId(Undefined, input),
                        r.decision = "approve")
            /\ UNCHANGED now
            /\ UNCHANGED raceVars

FHookMain(faults) ==
    \E s \in Sessions, p \in FaultPaths, f \in faults,
       phase \in {"PreToolUse", "PostToolUse"},
       lockFiles \in Listings(store) :
        LET input == HookInput("Edit", p, s, phase)
            r == ix_main(Failing(Cur, f), now, "session-1", input, lockFiles)
        IN  /\ Len(journal) < MaxFeed
            /\ Apply(r.w)
            /\ last' = Outcome(Op(IF phase = "PostToolUse" THEN "mainPost"
                                  ELSE "main",
                                  ix_extractAgentId("session-1", input), p,
                                  IF r.code = 2 THEN "block"
                                  ELSE IF r.said = "" THEN "allow" ELSE r.said,
                                  r.owner, r.minutes, r.code,
                                  Removed(r.w, p)), f)
            /\ Acquired(r.w, p, ix_extractAgentId("session-1", input),
                        r.said \in {"acquired", "already locked"})
            /\ UNCHANGED now
            /\ UNCHANGED raceVars

\* activity-broadcaster.js run as the PostToolUse hook
PostToolUse(faults) ==
    \E s \in Sessions, p \in FaultPaths, f \in faults :
        LET input == HookInput("Edit", p, s, "PostToolUse")
            r == ab_execute(Failing(Cur, f), now, Undefined, input)
        IN  /\ Len(journal) < MaxFeed
            /\ Apply(r.w)
            /\ last' = Outcome(Op("broadcast",
                                  ab_extractAgentId(Undefined, input),
                                  p, IF r.released THEN "released" ELSE "logged",
                                  Null, 0, ab_outputResult(r),
                                  Removed(r.w, p)), f)
            /\ UNCHANGED <<now, writer, granted>>
            /\ UNCHANGED raceVars

\* A lock file left empty by the writers of one temporary file (see RRename).
Torn ==
    \E k \in DOMAIN store :
        /\ last = Idle
        /\ store[k] # EmptyText
        /\ store' = [store EXCEPT ![k] = EmptyText]
        /\ UNCHANGED <<now, journal, nextLockId, last, writer, granted>>
        /\ UNCHANGED raceVars

\* The Gatekeeper of either implementation on one path, with the faults of the
\* filesystem.
NextFaults ==
    \/ Tick
    \/ ProcessExit
    \/ Torn
    \/ FPreToolUse(Faults)
    \/ FHookMain(Faults)

SpecFaults == Init /\ [][NextFaults]_vars

JournalFaults == {"none", "journal"}

\* LockUtils, its administration and the PostToolUse hook on one path, with a
\* feed that may fail.
NextFeed ==
    \/ Tick
    \/ ProcessExit
    \/ FCreateLock(JournalFaults)
    \/ FReleaseLock(JournalFaults)
    \/ FReleaseAgent(JournalFaults)
    \/ FCleanExpired(JournalFaults)
    \/ FShowStatus(JournalFaults)
    \/ PostToolUse(JournalFaults)

SpecFeed == Init /\ [][NextFeed]_vars

\* createLock and releaseLock on a lock directory whose files may fail to be
\* written.
NextWrite ==
    \/ Tick
    \/ ProcessExit
    \/ FCreateLock({"none", "write"})
    \/ FReleaseLock({"none", "write"})

SpecWrite == Init /\ [][NextWrite]_vars

\* ------------------------------------------------------------ createLock, call by call

(***************************************************************************)
(* LockUtils.createLock(RacePath, a) of process a, one filesystem call per *)
(* step.  The lock file and its temporary file <lockfile>.tmp are names    *)
(* of inodes: lockIno and tmpIno (0: no such file), inode[i] the content.  *)
(* writeFileSync opens the temporary file (creating it, or truncating the  *)
(* file of that name) and then writes to the file it opened, whatever name *)
(* that file has by then; renameSync gives the temporary file the lock     *)
(* file's name.                                                            *)
(***************************************************************************)
RacePath == PathX

\* What the read of isLocked finds in the lock file.
readLock(ino, content, t) ==
    IF ino = 0 THEN "absent"
    ELSE IF ~JSONparseOK(content[ino]) THEN "partial"
    ELSE IF Expired(t, content[ino]) THEN "expired"
    ELSE "live"

\* fs.openSync(tempPath, 'w'): the inode opened and the contents after it.
openTruncate(tmp, content) ==
    IF tmp = 0
    THEN [ino |-> Len(content) + 1, content |-> Append(content, EmptyText)]
    ELSE [ino |-> tmp, content |-> [content EXCEPT ![tmp] = EmptyText]]

\* Variant: a rename that does not replace an existing destination.
renameKeep(tmp, lock) == IF lock # 0 THEN lock ELSE tmp

\* fs.renameSync(tempPath, lockFilePath): the inode the lock file names after it.
renameSync(tmp, lock) == tmp

RStart(a) ==
    /\ pc[a] = "idle"
    /\ pc' = [pc EXCEPT ![a] = "check"]
    /\ obs' = [obs EXCEPT ![a] = "none"]
    /\ ret' = [ret EXCEPT ![a] = "none"]
    /\ UNCHANGED <<now, journal, nextLockId, lk, fd, lockIno, tmpIno, inode,
                   lastRename>>
    /\ UNCHANGED atomVars

\* isLocked: existsSync, readFileSync, JSON.parse and the expiry test
\* Variant: createLock waits for the lock of another agent to go and looks again.
RCheck_retry(a) ==
    /\ pc[a] = "check"
    /\ LET seen == readLock(lockIno, inode, now)
       IN  /\ obs' = [obs EXCEPT ![a] = seen]
           /\ IF seen = "expired"
              THEN /\ pc' = [pc EXCEPT ![a] = "reclaim"]
                   /\ ret' = ret
              ELSE IF seen = "live" /\ inode[lockIno].agent_id # a
              THEN /\ pc' = pc
                   /\ ret' = ret
              ELSE /\ pc' = [pc EXCEPT ![a] = "build"]
                   /\ ret' = ret
    /\ UNCHANGED <<now, journal, nextLockId, lk, fd, lockIno, tmpIno, inode,
                   lastRename>>
    /\ UNCHANGED atomVars

RCheck(a) ==
    /\ pc[a] = "check"
    /\ LET seen == readLock(lockIno, inode, now)
       IN  /\ obs' = [obs EXCEPT ![a] = seen]
           /\ IF seen = "expired"
              THEN /\ pc' = [pc EXCEPT ![a] = "reclaim"]
                   /\ ret' = ret
              ELSE IF seen = "live" /\ inode[lockIno].agent_id # a
              THEN /\ pc' = [pc EXCEPT ![a] = "idle"]
                   /\ ret' = [ret EXCEPT ![a] = "false"]
              ELSE /\ pc' = [pc EXCEPT ![a] = "build"]
                   /\ ret' = ret
    /\ UNCHANGED <<now, journal, nextLockId, lk, fd, lockIno, tmpIno, inode,
                   lastRename>>
    /\ UNCHANGED atomVars

\* isLocked's releaseLock(filePath): existsSync, unlinkSync, logActivity
RReclaim(a) ==
    /\ pc[a] = "reclaim"
    /\ IF lockIno = 0
       THEN UNCHANGED <<lockIno, journal>>
       ELSE /\ lockIno' = 0
            /\ journal' = logActivity(Cur, now, "lock_released", Null,
                                      RacePath, <<>>).journal
    /\ pc' = [pc EXCEPT ![a] = "build"]
    /\ UNCHANGED <<now, nextLockId, obs, lk, fd, ret, tmpIno, inode, lastRename>>
    /\ UNCHANGED atomVars

\* new Date(), crypto.randomUUID(): lockData
RBuild(a) ==
    /\ pc[a] = "build"
    /\ nextLockId <= MaxLocks
    /\ lk' = [lk EXCEPT ![a] = NewLock(now, RacePath, a, "editing", "unknown",
                                       defaultTimeout, nextLockId)]
    /\ nextLockId' = nextLockId + 1
    /\ pc' = [pc EXCEPT ![a] = "open"]
    /\ UNCHANGED <<now, journal, obs, fd, ret, lockIno, tmpIno, inode, lastRename>>
    /\ UNCHANGED atomVars

\* writeFileSync(tempPath, ...): the open
ROpen(a) ==
    /\ pc[a] = "open"
    /\ LET o == openTruncate(tmpIno, inode)
       IN  /\ tmpIno' = o.ino
           /\ fd' = [fd EXCEPT ![a] = o.ino]
           /\ inode' = o.content
    /\ pc' = [pc EXCEPT ![a] = "write"]
    /\ UNCHANGED <<now, journal, nextLockId, obs, lk, ret, lockIno, lastRename>>
    /\ UNCHANGED atomVars

\* writeFileSync(tempPath, JSON.stringify(lockData)): the write and the close
RWrite(a) ==
    /\ pc[a] = "write"
    /\ inode' = [inode EXCEPT ![fd[a]] = JSONstringify(lk[a])]
    /\ fd' = [fd EXCEPT ![a] = 0]
    /\ pc' = [pc EXCEPT ![a] = "rename"]
    /\ UNCHANGED <<now, journal, nextLockId, obs, lk, ret, lockIno, tmpIno,
                   lastRename>>
    /\ UNCHANGED atomVars

\* renameSync(tempPath, lockFilePath); ENOENT is caught and createLock returns false
RRename(a) ==
    /\ pc[a] = "rename"
    /\ IF tmpIno = 0
       THEN /\ ret' = [ret EXCEPT ![a] = "false"]
            /\ pc' = [pc EXCEPT ![a] = "idle"]
            /\ UNCHANGED <<lockIno, tmpIno, lastRename>>
       ELSE /\ lockIno' = renameSync(tmpIno, lockIno)
            /\ tmpIno' = 0
            /\ lastRename' = a
            /\ pc' = [pc EXCEPT ![a] = "log"]
            /\ ret' = ret
    /\ UNCHANGED <<now, journal, nextLockId, obs, lk, fd, inode>>
    /\ UNCHANGED atomVars

\* logActivity('lock_created', ...); return true
RLog(a) ==
    /\ pc[a] = "log"
    /\ journal' = logActivity(Cur, now, "lock_created", a, RacePath,
                              [operation |-> "editing",
                               session_id |-> "unknown"]).journal
    /\ ret' = [ret EXCEPT ![a] = "true"]
    /\ pc' = [pc EXCEPT ![a] = "idle"]
    /\ UNCHANGED <<now, nextLockId, obs, lk, fd, lockIno, tmpIno, inode, lastRename>>
    /\ UNCHANGED atomVars

RTick ==
    \E d \in TickSteps :
        /\ TickBy(d)
        /\ UNCHANGED <<journal, nextLockId>>
        /\ UNCHANGED raceVars
        /\ UNCHANGED atomVars

NextRace ==
    \/ RTick
    \/ \E a \in Agents : RStart(a)
    \/ \E a \in Agents : RCheck(a)
    \/ \E a \in Agents : RReclaim(a)
    \/ \E a \in Agents : RBuild(a)
    \/ \E a \in Agents : ROpen(a)
    \/ \E a \in Agents : RWrite(a)
    \/ \E a \in Agents : RRename(a)
    \/ \E a \in Agents : RLog(a)

SpecRace == Init /\ [][NextRace]_vars

\* ------------------------------------------------------------ the Gatekeeper, call by call

(***************************************************************************)
(* The PreToolUse hook of process a on RacePath, one call of the lock      *)
(* functions per step: impl "execute" is FileLockManager.execute, impl     *)
(* "main" is main of index.js.  lk[a] is the live lock that the latest     *)
(* isLocked of the run returned, ret[a] the response of the run.           *)
(***************************************************************************)
Impls == {"execute", "main"}

Stage(impl) ==
    IF impl = "execute"
    THEN [clean |-> "gclean", check |-> "gcheck", create |-> "gcreate"]
    ELSE [clean |-> "mclean", check |-> "mcheck", create |-> "mcreate"]

GStart(a, impl) ==
    /\ pc[a] = "idle"
    /\ pc' = [pc EXCEPT ![a] = Stage(impl).clean]
    /\ obs' = [obs EXCEPT ![a] = "none"]
    /\ ret' = [ret EXCEPT ![a] = "none"]
    /\ lk' = [lk EXCEPT ![a] = NoLock]
    /\ UNCHANGED <<now, journal, nextLockId, fd, lockIno, tmpIno, inode,
                   lastRename>>
    /\ UNCHANGED atomVars

\* cleanupExpiredLocks()
GClean(a, impl) ==
    /\ pc[a] = Stage(impl).clean
    /\ \E lockFiles \in Listings(store) :
          LET w == IF impl = "execute"
                   THEN cleanupExpiredLocks(Cur, now, lockFiles).w
                   ELSE ix_cleanupExpiredLocks(Cur, now, lockFiles)
          IN  /\ store' = w.store
              /\ journal' = w.journal
    /\ pc' = [pc EXCEPT ![a] = Stage(impl).check]
    /\ UNCHANGED <<now, nextLockId, last, writer, granted>>
    /\ UNCHANGED <<obs, lk, fd, ret, lockIno, tmpIno, inode, lastRename>>

\* isLocked(filePath) and the branch on existingLock
GCheck(a, impl) ==
    /\ pc[a] = Stage(impl).check
    /\ LET e == IF impl = "execute" THEN isLocked(Cur, now, RacePath)
                ELSE ix_isLocked(Cur, now, RacePath)
       IN  /\ store' = e.w.store
           /\ journal' = e.w.journal
           /\ obs' = [obs EXCEPT ![a] = IF e.found THEN "live" ELSE "absent"]
           /\ lk' = [lk EXCEPT ![a] = e.lock]
           /\ IF e.found
              THEN /\ pc' = [pc EXCEPT ![a] = "idle"]
                   /\ ret' = [ret EXCEPT ![a] =
                                 IF e.lock.agent_id = a THEN "already locked"
                                 ELSE "block"]
              ELSE /\ pc' = [pc EXCEPT ![a] = Stage(impl).create]
                   /\ ret' = ret
    /\ UNCHANGED <<now, nextLockId, last, writer, granted>>
    /\ UNCHANGED <<fd, lockIno, tmpIno, inode, lastRename>>

\* createLock(filePath, agentId, operation, session_id) and the branch on
\* lockCreated
GCreate(a, impl) ==
    /\ pc[a] = Stage(impl).create
    /\ LET e == IF impl = "execute" THEN isLocked(Cur, now, RacePath)
                ELSE ix_isLocked(Cur, now, RacePath)
           r == IF impl = "execute"
                THEN createLock(Cur, now, RacePath, a, "editing", a, 0)
                ELSE ix_createLock(Cur, now, RacePath, a, "edit", a)
       IN  /\ r.w.nextId <= MaxLocks + 1
           /\ store' = r.w.store
           /\ journal' = r.w.journal
           /\ nextLockId' = r.w.nextId
           /\ lk' = [lk EXCEPT ![a] = IF e.found THEN e.lock ELSE @]
           /\ ret' = [ret EXCEPT ![a] = IF r.res THEN "acquired" ELSE "warning"]
    /\ pc' = [pc EXCEPT ![a] = "idle"]
    /\ UNCHANGED <<now, last, writer, granted>>
    /\ UNCHANGED <<obs, fd, lockIno, tmpIno, inode, lastRename>>

NextGate ==
    \/ RTick
    \/ \E a \in Agents, impl \in Impls : GStart(a, impl)
    \/ \E a \in Agents, impl \in Impls : GClean(a, impl)
    \/ \E a \in Agents, impl \in Impls : GCheck(a, impl)
    \/ \E a \in Agents, impl \in Impls : GCreate(a, impl)

SpecGate == Init /\ [][NextGate]_vars

\* ------------------------------------------------------------ the operations, call by call

(***************************************************************************)
(* releaseLock(RacePath, a), cleanupExpiredLocks() and releaseAllLocks(a)  *)
(* of process a, one filesystem call per step, on the files of the         *)
(* section above and next to the createLock of other processes.  obs[a] is *)
(* what the read found, lk[a] the lockData it parsed, ret[a] what the call *)
(* returns (for the two loops, the number they count).                     *)
(***************************************************************************)
LStart(a) ==
    /\ pc[a] = "idle"
    /\ pc' = [pc EXCEPT ![a] = "rexists"]
    /\ obs' = [obs EXCEPT ![a] = "none"]
    /\ ret' = [ret EXCEPT ![a] = "none"]
    /\ lk' = [lk EXCEPT ![a] = NoLock]
    /\ UNCHANGED <<now, journal, nextLockId, fd, lockIno, tmpIno, inode,
                   lastRename>>
    /\ UNCHANGED atomVars

\* releaseLock: if (!fs.existsSync(lockFilePath)) return true
LExists(a) ==
    /\ pc[a] = "rexists"
    /\ IF lockIno = 0
       THEN /\ pc' = [pc EXCEPT ![a] = "idle"]
            /\ ret' = [ret EXCEPT ![a] = "true"]
       ELSE /\ pc' = [pc EXCEPT ![a] = "rread"]
            /\ ret' = ret
    /\ UNCHANGED <<now, journal, nextLockId, obs, lk, fd, lockIno, tmpIno, inode,
                   lastRename>>
    /\ UNCHANGED atomVars

\* releaseLock: readFileSync, JSON.parse and the ownership test; a throw is
\* caught and releaseLock returns false
LRead(a) ==
    /\ pc[a] = "rread"
    /\ LET seen == readLock(lockIno, inode, now)
       IN  /\ obs' = [obs EXCEPT ![a] = seen]
           /\ IF seen \in {"absent", "partial"} \/ inode[lockIno].agent_id # a
              THEN /\ pc' = [pc EXCEPT ![a] = "idle"]
                   /\ ret' = [ret EXCEPT ![a] = "false"]
              ELSE /\ pc' = [pc EXCEPT ![a] = "runlink"]
                   /\ ret' = ret
    /\ UNCHANGED <<now, journal, nextLockId, lk, fd, lockIno, tmpIno, inode,
                   lastRename>>
    /\ UNCHANGED atomVars

\* releaseLock: unlinkSync (ENOENT is caught, false), logActivity, return true
LUnlink(a) ==
    /\ pc[a] = "runlink"
    /\ IF lockIno = 0
       THEN /\ ret' = [ret EXCEPT ![a] = "false"]
            /\ UNCHANGED <<lockIno, journal>>
       ELSE /\ lockIno' = 0
            /\ journal' = logActivity(Cur, now, "lock_released", a, RacePath,
                                      <<>>).journal
            /\ ret' = [ret EXCEPT ![a] = "true"]
    /\ pc' = [pc EXCEPT ![a] = "idle"]
    /\ UNCHANGED <<now, nextLockId, obs, lk, fd, tmpIno, inode, lastRename>>
    /\ UNCHANGED atomVars

Sweeps == {"cleanupExpiredLocks", "releaseAllLocks"}

SweepStage(sweep) ==
    IF sweep = "cleanupExpiredLocks"
    THEN [list |-> "clist", read |-> "cread", unlink |-> "cunlink"]
    ELSE [list |-> "alist", read |-> "aread", unlink |-> "aunlink"]

SStart(a, sweep) ==
    /\ pc[a] = "idle"
    /\ pc' = [pc EXCEPT ![a] = SweepStage(sweep).list]
    /\ obs' = [obs EXCEPT ![a] = "none"]
    /\ ret' = [ret EXCEPT ![a] = "none"]
    /\ lk' = [lk EXCEPT ![a] = NoLock]
    /\ UNCHANGED <<now, journal, nextLockId, fd, lockIno, tmpIno, inode,
                   lastRename>>
    /\ UNCHANGED atomVars

\* fs.readdirSync(this.lockDir): the loop runs over the names read here and
\* passes over the temporary file, whose name does not end with .lock
SList(a, sweep) ==
    /\ pc[a] = SweepStage(sweep).list
    /\ IF lockIno = 0
       THEN /\ pc' = [pc EXCEPT ![a] = "idle"]
            /\ ret' = [ret EXCEPT ![a] = "0"]
       ELSE /\ pc' = [pc EXCEPT ![a] = SweepStage(sweep).read]
            /\ ret' = ret
    /\ UNCHANGED <<now, journal, nextLockId, obs, lk, fd, lockIno, tmpIno, inode,
                   lastRename>>
    /\ UNCHANGED atomVars

\* readFileSync, JSON.parse and the test of the loop body; a throw is caught in
\* the body and the loop goes on to the next name
SRead(a, sweep) ==
    /\ pc[a] = SweepStage(sweep).read
    /\ LET seen == readLock(lockIno, inode, now)
           hit == IF seen \in {"absent", "partial"} THEN FALSE
                  ELSE IF sweep = "cleanupExpiredLocks" THEN seen = "expired"
                  ELSE inode[lockIno].agent_id = a
       IN  /\ obs' = [obs EXCEPT ![a] = seen]
           /\ IF hit
              THEN /\ pc' = [pc EXCEPT ![a] = SweepStage(sweep).unlink]
                   /\ lk' = [lk EXCEPT ![a] = inode[lockIno]]
                   /\ ret' = ret
              ELSE /\ pc' = [pc EXCEPT ![a] = "idle"]
                   /\ lk' = lk
                   /\ ret' = [ret EXCEPT ![a] = "0"]
    /\ UNCHANGED <<now, journal, nextLockId, fd, lockIno, tmpIno, inode,
                   lastRename>>
    /\ UNCHANGED atomVars

\* unlinkSync (ENOENT is caught in the body), logActivity, the count
SUnlink(a, sweep) ==
    /\ pc[a] = SweepStage(sweep).unlink
    /\ IF lockIno = 0
       THEN /\ ret' = [ret EXCEPT ![a] = "0"]
            /\ UNCHANGED <<lockIno, journal>>
       ELSE /\ lockIno' = 0
            /\ journal' =
                  (IF sweep = "cleanupExpiredLocks"
                   THEN logActivity(Cur, now, "lock_expired", lk[a].agent_id,
                                    lk[a].file_path, <<>>)
                   ELSE logActivity(Cur, now, "lock_released", a,
                                    lk[a].file_path,
                                    [reason |-> "agent_cleanup"])).journal
            /\ ret' = [ret EXCEPT ![a] = "1"]
    /\ pc' = [pc EXCEPT ![a] = "idle"]
    /\ UNCHANGED <<now, nextLockId, obs, lk, fd, tmpIno, inode, lastRename>>
    /\ UNCHANGED atomVars

\* The clock passes the end of the leases granted so far.
LTick ==
    /\ now \div defaultTimeout < MaxLeases
    /\ now' = now + defaultTimeout + 1
    /\ UNCHANGED <<journal, nextLockId>>
    /\ UNCHANGED raceVars
    /\ UNCHANGED atomVars

\* The processes that are before the randomUUID() of createLock.
Unbuilt == {b \in Agents : pc[b] \in {"check", "reclaim", "build"}}

\* createLock is called while there is a lock_id left for it.
RBegin(a) ==
    /\ nextLockId + Cardinality(Unbuilt) <= MaxLocks
    /\ RStart(a)

\* The calls of process a once its operation has begun.
Running(a) ==
    \/ RCheck(a) \/ RReclaim(a) \/ RBuild(a) \/ ROpen(a) \/ RWrite(a)
    \/ RRename(a) \/ RLog(a)
    \/ LExists(a) \/ LRead(a) \/ LUnlink(a)
    \/ \E sweep \in Sweeps : SList(a, sweep) \/ SRead(a, sweep) \/ SUnlink(a, sweep)

NextLive ==
    \/ LTick
    \/ \E a \in Agents : RBegin(a)
    \/ \E a \in Agents : RCheck(a)
    \/ \E a \in Agents : RReclaim(a)
    \/ \E a \in Agents : RBuild(a)
    \/ \E a \in Agents : ROpen(a)
    \/ \E a \in Agents : RWrite(a)
    \/ \E a \in Agents : RRename(a)
    \/ \E a \in Agents : RLog(a)
    \/ \E a \in Agents : LStart(a)
    \/ \E a \in Agents : LExists(a)
    \/ \E a \in Agents : LRead(a)
    \/ \E a \in Agents : LUnlink(a)
    \/ \E a \in Agents, sweep \in Sweeps : SStart(a, sweep)
    \/ \E a \in Agents, sweep \in Sweeps : SList(a, sweep)
    \/ \E a \in Agents, sweep \in Sweeps : SRead(a, sweep)
    \/ \E a \in Agents, sweep \in Sweeps : SUnlink(a, sweep)

\* Every process is scheduled: a call that it can make, it makes.
SpecLive ==
    /\ Init
    /\ [][NextLive]_vars
    /\ \A a \in Agents : WF_vars(Running(a))

\* ------------------------------------------------------------ paths and lock-file names

PathColon == <<"x", ":", "y">>
PathQuery == <<"x", "?", "y">>
\* The file paths given to pathToLockName.
KeyPaths == {PathAB, PathA_B, PathColon, PathQuery}

\* lockUtils.createLock(filePath, agentId)
KCreateLock ==
    \E a \in Agents, p \in KeyPaths :
        LET r == createLock(Cur, now, p, a, Undefined, Undefined, 0)
        IN  /\ Apply(r.w)
            /\ last' = Op("createLock", a, p, IF r.res THEN "true" ELSE "false",
                          Null, 0, 0, Removed(r.w, p))
            /\ UNCHANGED <<now, writer, granted>>
            /\ UNCHANGED raceVars

\* lockUtils.releaseLock(filePath, agentId)
KReleaseLock ==
    \E a \in Agents, p \in KeyPaths :
        LET r == releaseLock(Cur, now, p, a)
        IN  /\ Apply(r.w)
            /\ last' = Op("releaseLock", a, p, IF r.res THEN "true" ELSE "false",
                          Null, 0, 0, Removed(r.w, p))
            /\ UNCHANGED <<now, writer, granted>>
            /\ UNCHANGED raceVars

NextKeys ==
    \/ Tick
    \/ ProcessExit
    \/ KCreateLock
    \/ KReleaseLock

SpecKeys == Init /\ [][NextKeys]_vars

\* ------------------------------------------------------------ the hooks in their session

\* What a hook process of one session sees: process.env.MCP_AGENT_ID, the
\* agent_id and session_id of its input, and `session-${process.ppid}`.
Context(env, agentId, sessionId, ppid) ==
    [env |-> env, agent_id |-> agentId, session_id |-> sessionId, ppid |-> ppid]

Contexts ==
    {Context(Undefined, Undefined, "a1", "session-1"),
     Context(Undefined, "a2", "a1", "session-1"),
     Context("a1", "a2", "a2", "session-1"),
     Context(Undefined, Undefined, Undefined, "session-1")}

PathLog == <<"x", ".", "l", "o", "g">>
HookPaths == {PathX, PathEnv, PathLog}

ContextInput(c, toolName, filePath, phase) ==
    [tool_name |-> toolName, tool_input |-> [file_path |-> filePath],
     session_id |-> c.session_id, agent_id |-> c.agent_id,
     hook_event_name |-> phase]

\* The call recorded with the context of its process.
InContext(o, c) == o @@ [ctx |-> c]

\* file-lock-manager.js run as the PreToolUse hook
HPre ==
    \E c \in Contexts, p \in HookPaths, lockFiles \in Listings(store) :
        LET input == ContextInput(c, "Edit", p, "PreToolUse")
            r == execute(Cur, now, c.env, input, lockFiles)
            code == outputResult(r)
        IN  /\ Len(journal) < MaxHookFeed
            /\ Apply(r.w)
            /\ last' = InContext(Op("execute", extractAgentId(c.env, input), p,
                                    IF code = 2 THEN "block"
                                    ELSE IF r.decision = "approve" THEN r.reason
                                    ELSE IF r.reason = "" THEN "allow"
                                    ELSE r.reason,
                                    r.owner, r.minutes, code, Removed(r.w, p)),
                                 c)
            /\ UNCHANGED <<now, writer, granted>>
            /\ UNCHANGED raceVars

\* activity-broadcaster.js run as the PostToolUse hook
HPost ==
    \E c \in Contexts, p \in HookPaths :
        LET input == ContextInput(c, "Edit", p, "PostToolUse")
            r == ab_execute(Cur, now, c.env, input)
        IN  /\ Len(journal) < MaxHookFeed
            /\ Apply(r.w)
            /\ last' = InContext(Op("broadcast", ab_extractAgentId(c.env, input),
                                    p,
                                    IF r.released THEN "released" ELSE "logged",
                                    Null, 0, ab_outputResult(r),
                                    Removed(r.w, p)), c)
            /\ UNCHANGED <<now, writer, granted>>
            /\ UNCHANGED raceVars

\* index.js run as the PreToolUse or the PostToolUse hook
HMain ==
    \E c \in Contexts, p \in HookPaths,
       phase \in {"PreToolUse", "PostToolUse"},
       lockFiles \in Listings(store) :
        LET input == ContextInput(c, "Edit", p, phase)
            r == ix_main(Cur, now, c.ppid, input, lockFiles)
        IN  /\ Len(journal) < MaxHookFeed
            /\ Apply(r.w)
            /\ last' = InContext(Op(IF phase = "PostToolUse" THEN "mainPost"
                                    ELSE "main",
                                    ix_extractAgentId(c.ppid, input), p,
                                    IF r.code = 2 THEN "block"
                                    ELSE IF r.said = "" THEN "allow"
                                    ELSE r.said,
                                    r.owner, r.minutes, r.code,
                                    Removed(r.w, p)), c)
            /\ UNCHANGED <<now, writer, granted>>
            /\ UNCHANGED raceVars

NextHooks ==
    \/ Tick
    \/ ProcessExit
    \/ HPre
    \/ HPost
    \/ HMain

SpecHooks == Init /\ [][NextHooks]_vars

\* The hooks in their session next to the administrator's force release.
NextAdmin ==
    \/ Tick
    \/ ProcessExit
    \/ HPre
    \/ HPost
    \/ HMain
    \/ ForceRelease

SpecAdmin == Init /\ [][NextAdmin]_vars

\* ------------------------------------------------------------ unparsable lock files

\* The operations of LockUtils on a lock directory in which lock files are left
\* empty.
NextTorn ==
    \/ Tick
    \/ ProcessExit
    \/ Torn
    \/ CallCreateLock
    \/ ReleaseAgent
    \/ CleanExpired
    \/ ShowStatus

SpecTorn == Init /\ [][NextTorn]_vars

\* ------------------------------------------------------------ the two Gatekeepers side by side

(***************************************************************************)
(* The class-based hooks (FileLockManager, ActivityBroadcaster) run in     *)
(* the working directory "A" and the standalone hook (index.js) in the     *)
(* working directory "B", on the same inputs at the same times.  store     *)
(* holds the lock files of both lock directories, each name after the name *)
(* of its working directory; journal holds the entries of both feeds in    *)
(* the order of the appends.                                               *)
(***************************************************************************)
\* The lock directory of working directory d.
Dir(fs, d) ==
    [k \in {Tail(n) : n \in {m \in DOMAIN fs : Head(m) = d}} |-> fs[<<d>> \o k]]

\* The lock directory dir as that of working directory d.
Mount(d, dir) == [n \in {<<d>> \o k : k \in DOMAIN dir} |-> dir[Tail(n)]]

\* The class-based hook of the phase: the directory and feed it leaves, and the
\* exit code.
ClassHook(w, t, input, lockFiles) ==
    IF input.hook_event_name = "PreToolUse"
    THEN LET r == execute(w, t, Undefined, input, lockFiles)
         IN  [w |-> r.w, code |-> outputResult(r)]
    ELSE LET r == ab_execute(w, t, Undefined, input)
         IN  [w |-> r.w, code |-> ab_outputResult(r)]

\* One hook invocation, given to both implementations.
HookPair ==
    \E s \in Sessions, p \in GatePaths,
       phase \in {"PreToolUse", "PostToolUse"},
       lockFilesA \in Listings(Dir(store, "A")),
       lockFilesB \in Listings(Dir(store, "B")) :
      \E rA \in {ClassHook(World(Dir(store, "A"), journal, nextLockId), now,
                           HookInput("Edit", p, s, phase), lockFilesA)} :
        \E rB \in {ix_main(World(Dir(store, "B"), rA.w.journal, rA.w.nextId),
                           now, "session-1", HookInput("Edit", p, s, phase),
                           lockFilesB)} :
            /\ last = Idle
            /\ Len(journal) < MaxPairFeed
            /\ rB.w.nextId <= MaxPairLocks + 1
            /\ store' = Mount("A", rA.w.store) @@ Mount("B", rB.w.store)
            /\ journal' = rB.w.journal
            /\ nextLockId' = rB.w.nextId
            /\ last' = Op("pair", s, p, phase, Null, 0, rA.code, FALSE)
                          @@ [standalone |-> rB.code]
            /\ UNCHANGED <<now, writer, granted>>
            /\ UNCHANGED raceVars

NextPair ==
    \/ Tick
    \/ ProcessExit
    \/ HookPair

SpecPair == Init /\ [][NextPair]_vars

\* ------------------------------------------------------------ properties

Key(filePath) == pathToLockName(filePath)
Holds(k) == k \in DOMAIN store
\* The liveness of the specification: now < expires_at.
LiveAt(t, lockData) == t < lockData.expires_at
\* The entries the step appends to the feed.
Appended == SubSeq(journal', Len(journal) + 1, Len(journal'))
Extends == Len(journal') >= Len(journal) /\ SubSeq(journal', 1, Len(journal)) = journal
LockEntry(action, agentId, filePath) ==
    [action |-> action, agent_id |-> agentId, file_path |-> filePath]
Acquires == {"createLock", "execute", "main"}
Denied(o) == IF o.op = "createLock" THEN o.res = "false" ELSE o.res = "block"
Granted(o) ==
    IF o.op = "createLock" THEN o.res = "true"
    ELSE o.res \in {"acquired", "already locked"}
\* The step removes only expired records of keys other than k, one lock_expired
\* entry for each, and nothing else changes in the store.
OnlyReclaimsOthers(k) ==
    /\ Extends
    /\ DOMAIN store' \subseteq DOMAIN store
    /\ \A x \in DOMAIN store' : store'[x] = store[x]
    /\ \A x \in (DOMAIN store) \ (DOMAIN store') : x # k /\ Expired(now, store[x])
    /\ Len(Appended) = Cardinality((DOMAIN store) \ (DOMAIN store'))
    /\ \A i \in 1..Len(Appended) :
          /\ Appended[i].action = "lock_expired"
          /\ Key(Appended[i].file_path) \in (DOMAIN store) \ (DOMAIN store')
          /\ Appended[i] = LockEntry("lock_expired",
                                     store[Key(Appended[i].file_path)].agent_id,
                                     store[Key(Appended[i].file_path)].file_path)

\* C1 as stated: an acquisition of k by B while A's live record is stored under k is
\* denied, names A as the owner, and changes neither the store nor the feed.
C1_DeniedNoEffect ==
    [][(/\ last'.op \in Acquires
        /\ Holds(Key(last'.path))
        /\ store[Key(last'.path)].agent_id # last'.agent
        /\ LiveAt(now, store[Key(last'.path)]))
       => /\ Denied(last')
          /\ last'.op # "createLock" => last'.owner = store[Key(last'.path)].agent_id
          /\ store' = store
          /\ journal' = journal]_vars

\* C1 amended: the acquisition is denied, the Gatekeeper names A as the owner, no
\* record is written and A's record is unchanged; createLock alone changes nothing,
\* while the Gatekeeper's cleanupExpiredLocks may remove expired records of other
\* keys, appending one lock_expired entry for each.
C1_DeniedKeepsRecord ==
    [][(/\ last'.op \in Acquires
        /\ Holds(Key(last'.path))
        /\ store[Key(last'.path)].agent_id # last'.agent
        /\ LiveAt(now, store[Key(last'.path)]))
       => /\ Denied(last')
          /\ last'.op # "createLock" => last'.owner = store[Key(last'.path)].agent_id
          /\ nextLockId' = nextLockId
          /\ Key(last'.path) \in DOMAIN store'
          /\ store'[Key(last'.path)] = store[Key(last'.path)]
          /\ OnlyReclaimsOthers(Key(last'.path))
          /\ last'.op = "createLock" => store' = store /\ journal' = journal]_vars

\* A Gatekeeper denial during which an expired record of another key was reclaimed.
C1_Witness ==
    /\ last.op \in {"execute", "main"}
    /\ last.res = "block"
    /\ Holds(Key(last.path))
    /\ store[Key(last.path)].agent_id = last.owner
    /\ last.owner # last.agent
    /\ LiveAt(now, store[Key(last.path)])
    /\ Len(journal) > 0
    /\ journal[Len(journal)].action = "lock_expired"
    /\ Key(journal[Len(journal)].file_path) # Key(last.path)

Releases == {"releaseLock", "mainPost"}
Released(o) == IF o.op = "releaseLock" THEN o.res = "true" ELSE o.res = "released"
IsRelease(e) == e.action = "lock_released"
NoReleaseLogged == SelectSeq(Appended, IsRelease) = <<>>

\* C2 as stated: a release of k by B while A's record, live or expired, is stored
\* under k reports that nothing was released, appends no lock_released entry and
\* leaves the record as it was.
C2_NotOwnerNoEffect ==
    [][(/\ last'.op \in Releases
        /\ Holds(Key(last'.path))
        /\ store[Key(last'.path)].agent_id # last'.agent)
       => /\ ~Released(last')
          /\ Extends
          /\ NoReleaseLogged
          /\ Key(last'.path) \in DOMAIN store'
          /\ store'[Key(last'.path)] = store[Key(last'.path)]]_vars

\* C2 amended: the release reports that nothing was released and appends no
\* lock_released entry; LockUtils.releaseLock changes nothing, live or expired;
\* the PostToolUse run of index.js leaves A's record as it was while
\* now <= expires_at, and after that its cleanup removes the record with a
\* lock_expired entry.
C2_NotOwnerKeepsUnexpired ==
    [][(/\ last'.op \in Releases
        /\ Holds(Key(last'.path))
        /\ store[Key(last'.path)].agent_id # last'.agent)
       => /\ ~Released(last')
          /\ Extends
          /\ NoReleaseLogged
          /\ nextLockId' = nextLockId
          /\ last'.op = "releaseLock" => store' = store /\ journal' = journal
          /\ last'.op = "mainPost" =>
                /\ last'.n = 0
                /\ now <= store[Key(last'.path)].expires_at =>
                      /\ Key(last'.path) \in DOMAIN store'
                      /\ store'[Key(last'.path)] = store[Key(last'.path)]
                /\ now > store[Key(last'.path)].expires_at =>
                      /\ Key(last'.path) \notin DOMAIN store'
                      /\ \E i \in 1..Len(Appended) :
                            Appended[i] =
                                LockEntry("lock_expired",
                                          store[Key(last'.path)].agent_id,
                                          store[Key(last'.path)].file_path)]_vars

\* A PostToolUse run of B on a path whose expired record of A its cleanup removed.
C2_Witness ==
    /\ last.op = "mainPost"
    /\ last.res = "no lock"
    /\ last.del
    /\ Len(journal) > 0
    /\ journal[Len(journal)].action = "lock_expired"
    /\ journal[Len(journal)].file_path = last.path
    /\ journal[Len(journal)].agent_id # last.agent

\* C3: an acquisition of a key without a record is granted and stores a record of
\* the caller with locked_at = now and expires_at = locked_at + L > now, where L is
\* the timeout given to createLock and 600 s when none is given.
C3_LeaseFromNow ==
    [][(/\ last'.op \in Acquires
        /\ ~Holds(Key(last'.path)))
       => /\ Granted(last')
          /\ last'.res # "already locked"
          /\ Key(last'.path) \in DOMAIN store'
          /\ store'[Key(last'.path)].agent_id = last'.agent
          /\ store'[Key(last'.path)].file_path = last'.path
          /\ store'[Key(last'.path)].locked_at = now
          /\ store'[Key(last'.path)].expires_at =
                store'[Key(last'.path)].locked_at +
                (IF last'.op = "createLock" /\ last'.n # 0
                 THEN last'.n ELSE 600 * 1000)
          /\ store'[Key(last'.path)].expires_at > now
          /\ LiveAt(now, store'[Key(last'.path)])
          /\ Extends
          /\ Len(Appended) >= 1
          /\ last'.op = "createLock" => Len(Appended) = 1
          /\ journal'[Len(journal')].action = "lock_created"
          /\ journal'[Len(journal')].agent_id = last'.agent
          /\ journal'[Len(journal')].file_path = last'.path]_vars

\* createLock with a timeout of its own on a key that had no record.
C3_Witness ==
    /\ last.op = "createLock"
    /\ last.res = "true"
    /\ ~last.del
    /\ last.n = ShortLease
    /\ Holds(Key(last.path))
    /\ store[Key(last.path)].agent_id = last.agent
    /\ store[Key(last.path)].locked_at = now
    /\ store[Key(last.path)].expires_at = now + ShortLease

\* C4 as stated: an acquisition by the holder of a live record is granted and
\* leaves locked_at, expires_at and lock_id as they were; a record is written
\* only when the key has no live record.
C4_ReentryKeepsRecord ==
    [][/\ (/\ last'.op \in Acquires
           /\ Holds(Key(last'.path))
           /\ store[Key(last'.path)].agent_id = last'.agent
           /\ LiveAt(now, store[Key(last'.path)]))
          => /\ Granted(last')
             /\ Key(last'.path) \in DOMAIN store'
             /\ store'[Key(last'.path)] = store[Key(last'.path)]
       /\ (last'.op \in Acquires /\ nextLockId' > nextLockId)
          => \/ ~Holds(Key(last'.path))
             \/ ~LiveAt(now, store[Key(last'.path)])]_vars

\* C4 amended: the Gatekeeper (execute, main) grants the holder's acquisition
\* without writing, and writes only when the key has no live record;
\* createLock called by the holder is granted too, but replaces the record by a
\* new lease from now with a new lock_id and appends a lock_created entry.
C4_GatekeeperKeepsRecord ==
    [][/\ (/\ last'.op \in Acquires
           /\ Holds(Key(last'.path))
           /\ store[Key(last'.path)].agent_id = last'.agent
           /\ LiveAt(now, store[Key(last'.path)]))
          => /\ Granted(last')
             /\ Key(last'.path) \in DOMAIN store'
             /\ store'[Key(last'.path)].agent_id = last'.agent
             /\ last'.op # "createLock" =>
                   /\ last'.res = "already locked"
                   /\ store'[Key(last'.path)] = store[Key(last'.path)]
                   /\ nextLockId' = nextLockId
                   /\ \A i \in 1..Len(Appended) :
                         Appended[i].action # "lock_created"
             /\ last'.op = "createLock" =>
                   /\ store'[Key(last'.path)].locked_at = now
                   /\ store'[Key(last'.path)].expires_at =
                         now + (IF last'.n # 0 THEN last'.n ELSE 600 * 1000)
                   /\ store'[Key(last'.path)].lock_id = nextLockId
                   /\ store'[Key(last'.path)].lock_id #
                         store[Key(last'.path)].lock_id
                   /\ journal' = Append(journal,
                         [operation |-> "editing", session_id |-> "unknown"]
                         @@ LockEntry("lock_created", last'.agent, last'.path))
       /\ (last'.op \in {"execute", "main"} /\ nextLockId' > nextLockId)
          => \/ ~Holds(Key(last'.path))
             \/ ~LiveAt(now, store[Key(last'.path)])]_vars

\* createLock of the holder at time 0, when no lease has run out: the first
\* record of the key is replaced by the second.
C4_Witness ==
    /\ now = 0
    /\ last.op = "createLock"
    /\ last.res = "true"
    /\ last.del
    /\ Holds(Key(last.path))
    /\ store[Key(last.path)].agent_id = last.agent
    /\ store[Key(last.path)].lock_id = 2
    /\ Len(journal) = 2
    /\ journal[1].action = "lock_created"
    /\ journal[1].agent_id = last.agent
    /\ journal[1].file_path = last.path
    /\ journal[2].action = "lock_created"

IsReclaimOf(k, e) ==
    Key(e.file_path) = k /\ e.action \in {"lock_expired", "lock_released"}
\* The entries about key k that the step appends for the removal of its record.
ReclaimEntries(k) == SelectSeq(Appended, LAMBDA e : IsReclaimOf(k, e))

\* C5 as stated: whichever of createLock, the Gatekeeper and cleanupExpiredLocks
\* removes an expired record, it appends exactly one lock_expired entry for it
\* and no lock_released entry.
C5_ExpiryLogged ==
    [][\A k \in DOMAIN store :
          (/\ last'.op \in {"createLock", "execute", "cleanupExpiredLocks"}
           /\ Expired(now, store[k])
           /\ \/ k \notin DOMAIN store'
              \/ store'[k].lock_id # store[k].lock_id)
          => ReclaimEntries(k) =
                <<LockEntry("lock_expired", store[k].agent_id,
                            store[k].file_path)>>]_vars

C8_SingleHolder ==
    \A k \in DOMAIN store :
        LiveAt(now, store[k])
        => /\ store[k].agent_id = writer[k]
           /\ granted[k] \subseteq {store[k].agent_id}

\* A key that has passed from one agent to another.
C8_Witness ==
    \E k \in DOMAIN store :
        /\ LiveAt(now, store[k])
        /\ writer[k] = store[k].agent_id
        /\ granted[k] = {store[k].agent_id}
        /\ \E i \in 1..Len(journal) :
              /\ journal[i].action = "lock_created"
              /\ Key(journal[i].file_path) = k
              /\ journal[i].agent_id # store[k].agent_id

\* C9: when two createLock calls for the same path both found no lock file and
\* both returned true, the lock file holds the complete record of exactly one of
\* them, the one whose rename came last.
C9_LastWriterWins ==
    \A a, b \in Agents :
        (/\ a # b
         /\ pc[a] = "idle" /\ pc[b] = "idle"
         /\ obs[a] = "absent" /\ obs[b] = "absent"
         /\ ret[a] = "true" /\ ret[b] = "true")
        => /\ lockIno # 0
           /\ lastRename \in {a, b}
           /\ inode[lockIno] = JSONstringify(lk[lastRename])
           /\ inode[lockIno].agent_id = lastRename
           /\ inode[lockIno] # JSONstringify(lk[CHOOSE c \in {a, b} : c # lastRename])

\* Both calls have found no lock file and both have returned true.
C9_Witness ==
    \E a, b \in Agents :
        /\ a # b
        /\ pc[a] = "idle" /\ pc[b] = "idle"
        /\ obs[a] = "absent" /\ obs[b] = "absent"
        /\ ret[a] = "true" /\ ret[b] = "true"

\* C10 as stated: a read of the lock file finds no file or a complete record,
\* never a part of one.
C10_NeverPartial == \A a \in Agents : obs[a] # "partial"

\* C11 as stated: a PreToolUse run in which a read of the lock file returned a
\* live lock of another agent responds with a block.
C11_DenialBlocks ==
    \A a \in Agents :
        (/\ pc[a] = "idle"
         /\ ret[a] # "none"
         /\ lk[a].agent_id \notin {Null, a})
        => ret[a] = "block"

Gatekeepers == {"execute", "main"}

\* The lock file of filePath can be read and holds an unexpired lock of an agent
\* other than agentId.
ReadsForeignLive(f, t, filePath, agentId) ==
    /\ f \notin {"read", "nodir"}
    /\ Holds(Key(filePath))
    /\ JSONparseOK(store[Key(filePath)])
    /\ store[Key(filePath)].agent_id # agentId
    /\ ~Expired(t, store[Key(filePath)])

\* C12: a PreToolUse run answers with a block (exit code 2) only when the lock
\* file of the path can be read and parsed and holds an unexpired lock of
\* another agent, whom the block names; it then leaves the store and the journal
\* as they were.  Every other run, whatever fails in it (lock directory missing,
\* lock file unreadable or unparsable, write or rename failing, journal append
\* failing), ends with exit code 0.
C12_FailOpen ==
    [][(last = Idle /\ last'.op \in Gatekeepers)
       => /\ (last'.res = "block") = (last'.n = 2)
          /\ last'.n \in {0, 2}
          /\ (last'.res = "block")
                => /\ ReadsForeignLive(last'.fault, now, last'.path, last'.agent)
                   /\ last'.owner = store[Key(last'.path)].agent_id
                   /\ journal' = journal
                   /\ store' = store]_vars

\* A run on a lock directory that is missing ends with the warning and exit
\* code 0, and one that cannot read the lock of another agent takes the file.
C12_Witness ==
    /\ last.op \in Gatekeepers
    /\ last.fault \in {"nodir", "read"}
    /\ last.res \in {"warning", "acquired"}
    /\ last.n = 0

CountOf(entries, action) ==
    Cardinality({i \in DOMAIN entries : entries[i].action = action})

\* The lock files the step deletes: those gone afterwards, and those expired and
\* written anew (the reclamation inside createLock's isLocked).
DeletedKeys ==
    {k \in DOMAIN store :
        \/ k \notin DOMAIN store'
        \/ /\ store'[k] # store[k]
           /\ JSONparseOK(store[k])
           /\ Expired(now, store[k])}

ExpiryOps == {"createLock", "cleanupExpiredLocks", "getAllLocks"}

\* C13 as stated: while the appends to the feed succeed, each operation appends
\* one lock_created event for each lock file it creates, one lock_released event
\* for each lock file it deletes as a release, one lock_expired event for each
\* lock file it deletes as expired, and no other lock event.
C13_OneEventPerTransition ==
    [][(last = Idle /\ last' # Idle /\ last'.fault = "none")
       => /\ CountOf(Appended, "lock_created") = nextLockId' - nextLockId
          /\ CountOf(Appended, "lock_expired") =
                IF last'.op \in ExpiryOps THEN Cardinality(DeletedKeys) ELSE 0
          /\ CountOf(Appended, "lock_released") =
                IF last'.op \in ExpiryOps THEN 0 ELSE Cardinality(DeletedKeys)]_vars

\* What the call recorded in o returns and leaves in the store when it runs in
\* the current state with every append succeeding.
Unfailing(o, lockFiles) ==
    CASE o.op = "createLock" ->
            LET r == createLock(Cur, now, o.path, o.agent, Undefined, Undefined,
                                o.n)
            IN  [store |-> r.w.store, nextId |-> r.w.nextId, n |-> o.n,
                 res |-> IF r.res THEN "true" ELSE "false"]
      [] o.op = "releaseLock" ->
            LET r == releaseLock(Cur, now, o.path, o.agent)
            IN  [store |-> r.w.store, nextId |-> r.w.nextId, n |-> 0,
                 res |-> IF r.res THEN "true" ELSE "false"]
      [] o.op = "releaseAllLocks" ->
            LET r == releaseAllLocks(Cur, now, o.agent, lockFiles)
            IN  [store |-> r.w.store, nextId |-> r.w.nextId, n |-> r.res,
                 res |-> ""]
      [] o.op = "cleanupExpiredLocks" ->
            LET r == cleanupExpiredLocks(Cur, now, lockFiles)
            IN  [store |-> r.w.store, nextId |-> r.w.nextId, n |-> r.res,
                 res |-> ""]

CoordinatorOps ==
    {"createLock", "releaseLock", "releaseAllLocks", "cleanupExpiredLocks"}

\* C14: createLock, releaseLock, releaseAllLocks and cleanupExpiredLocks, run
\* with every append to the feed failing, return the value and leave the store
\* that they return and leave when the appends succeed; the feed is unchanged.
C14_JournalIndependent ==
    [][(last = Idle /\ last'.op \in CoordinatorOps /\ last'.fault = "journal")
       => /\ journal' = journal
          /\ \A lockFiles \in Listings(store) :
                LET u == Unfailing(last', lockFiles)
                IN  /\ store' = u.store
                    /\ nextLockId' = u.nextId
                    /\ last'.res = u.res
                    /\ last'.n = u.n]_vars

\* A lock created while the feed cannot be written.
C14_Witness ==
    /\ last.op = "createLock"
    /\ last.fault = "journal"
    /\ last.res = "true"
    /\ journal = <<>>
    /\ Holds(Key(last.path))
    /\ store[Key(last.path)].agent_id = last.agent

\* C15: every step of the lock operations and of the PostToolUse hook leaves the
\* entries already in the feed where and as they were: the feed before the step
\* is a prefix of the feed after it.
C15_AppendOnly == [][Extends]_vars

\* An operation that appended to a feed holding entries of both writers.
C15_Witness ==
    /\ last # Idle
    /\ Len(journal) >= 3
    /\ \E i \in DOMAIN journal : journal[i].action = "tool_completed"
    /\ \E i \in DOMAIN journal : journal[i].action = "lock_created"
    /\ \E i \in DOMAIN journal : journal[i].action = "lock_expired"

\* The step keeps the lock files of kept unchanged, deletes the others, returns
\* the number of the deleted and appends one entry for each of them: action,
\* the agent_id and file_path of the deleted lock, and the given details.
DeletesAndLogs(kept, action, details) ==
    /\ DOMAIN store' = kept
    /\ \A k \in kept : store'[k] = store[k]
    /\ last'.n = Cardinality((DOMAIN store) \ kept)
    /\ Extends
    /\ Len(Appended) = last'.n
    /\ \A k \in (DOMAIN store) \ kept :
          \E i \in DOMAIN Appended :
              Appended[i] = details @@ LockEntry(action, store[k].agent_id,
                                                 store[k].file_path)

C17_ReleaseAllFor ==
    [][(last = Idle /\ last'.op = "releaseAllLocks")
       => DeletesAndLogs({k \in DOMAIN store : store[k].agent_id # last'.agent},
                         "lock_released", [reason |-> "agent_cleanup"])]_vars

\* releaseAllLocks that deleted the caller's lock and kept another agent's.
C17_Witness ==
    /\ last.op = "releaseAllLocks"
    /\ last.n = 1
    /\ Cardinality(DOMAIN store) = 1
    /\ \A k \in DOMAIN store : store[k].agent_id # last.agent
    /\ journal # <<>>
    /\ journal[Len(journal)].action = "lock_released"
    /\ journal[Len(journal)].agent_id = last.agent
    /\ "reason" \in DOMAIN journal[Len(journal)]

\* The entries of the feed about key k.
EntriesOf(k) == SelectSeq(journal, LAMBDA e : Key(e.file_path) = k)

\* The latest event about key k is a release by an agent.
ReleasedLast(k) ==
    /\ EntriesOf(k) # <<>>
    /\ EntriesOf(k)[Len(EntriesOf(k))].action = "lock_released"
    /\ EntriesOf(k)[Len(EntriesOf(k))].agent_id # Null

\* C18: when the latest event about a key is an agent's release of it, the next
\* acquisition of the key, by any agent and through createLock or either
\* Gatekeeper, is granted: the store then holds a lock of the caller with a new
\* lock_id and a lease that starts now, and the caller's lock_created event is
\* appended after the lock_released event.
C18_HandOff ==
    [][(/\ last = Idle
        /\ last'.op \in Acquires
        /\ ReleasedLast(Key(last'.path)))
       => /\ Granted(last')
          /\ last'.res # "already locked"
          /\ Key(last'.path) \in DOMAIN store'
          /\ store'[Key(last'.path)].agent_id = last'.agent
          /\ store'[Key(last'.path)].lock_id = nextLockId
          /\ nextLockId' = nextLockId + 1
          /\ store'[Key(last'.path)].locked_at = now
          /\ store'[Key(last'.path)].expires_at > now
          /\ Extends
          /\ Len(Appended) >= 1
          /\ Appended[Len(Appended)].action = "lock_created"
          /\ Appended[Len(Appended)].agent_id = last'.agent
          /\ Appended[Len(Appended)].file_path = last'.path]_vars

\* a1 acquired and released the file, then a2 acquired it.
C18_Witness ==
    /\ last.op \in Acquires
    /\ Granted(last)
    /\ last.agent = "a2"
    /\ Len(journal) = 3
    /\ journal[1].action = "lock_created" /\ journal[1].agent_id = "a1"
    /\ journal[2].action = "lock_released" /\ journal[2].agent_id = "a1"
    /\ journal[3].action = "lock_created" /\ journal[3].agent_id = "a2"
    /\ journal[1].file_path = last.path
    /\ journal[2].file_path = last.path
    /\ journal[3].file_path = last.path
    /\ Holds(Key(last.path))
    /\ store[Key(last.path)].agent_id = "a2"
    /\ store[Key(last.path)].lock_id = 2

\* The lock file of filePath holds a lock of an agent other than agentId whose
\* expires_at is before t.
ForeignStale(t, filePath, agentId) ==
    /\ Holds(Key(filePath))
    /\ store[Key(filePath)].agent_id # agentId
    /\ t > store[Key(filePath)].expires_at

\* C19: a PreToolUse run of agent a2 (execute or main) on a file whose lock,
\* held by a1, has run out (now > expires_at) removes that lock, appends for it
\* one lock_expired event with a1 and the locked path and no lock_released
\* event, appends a2's lock_created event after it, reports the acquisition, and
\* leaves a lock of a2 with a new lock_id.
C19_ReclaimAndGrant ==
    [][(/\ last = Idle
        /\ last'.op \in Gatekeepers
        /\ ForeignStale(now, last'.path, last'.agent))
       => /\ last'.res = "acquired"
          /\ last'.n = 0
          /\ last'.del
          /\ Key(last'.path) \in DOMAIN store'
          /\ store'[Key(last'.path)].agent_id = last'.agent
          /\ store'[Key(last'.path)].lock_id = nextLockId
          /\ store'[Key(last'.path)].lock_id # store[Key(last'.path)].lock_id
          /\ nextLockId' = nextLockId + 1
          /\ Extends
          /\ ReclaimEntries(Key(last'.path)) =
                <<LockEntry("lock_expired", store[Key(last'.path)].agent_id,
                            store[Key(last'.path)].file_path)>>
          /\ CountOf(Appended, "lock_created") = 1
          /\ Appended[Len(Appended)].action = "lock_created"
          /\ Appended[Len(Appended)].agent_id = last'.agent
          /\ Appended[Len(Appended)].file_path = last'.path]_vars

\* A PreToolUse run of a2 that took over the file whose lock a1 let run out.
C19_Witness ==
    /\ last.op \in Gatekeepers
    /\ last.res = "acquired"
    /\ last.del
    /\ last.agent = "a2"
    /\ Len(journal) >= 3
    /\ journal[Len(journal) - 1] = LockEntry("lock_expired", "a1", last.path)
    /\ journal[Len(journal)].action = "lock_created"
    /\ journal[Len(journal)].agent_id = "a2"
    /\ journal[Len(journal)].file_path = last.path
    /\ Holds(Key(last.path))
    /\ store[Key(last.path)].agent_id = "a2"

\* C20: every acquisition of a file by an agent other than the one named in its
\* lock, made later than the lock's expires_at (= locked_at + lease), is granted
\* whatever else was done or left undone since the lock was written, and leaves
\* a live lock of the caller; so an acquisition that is denied comes no later
\* than expires_at.
C20_StaleNeverBlocks ==
    [][(last = Idle /\ last'.op \in Acquires)
       => /\ ForeignStale(now, last'.path, last'.agent)
             => /\ Granted(last')
                /\ Key(last'.path) \in DOMAIN store'
                /\ store'[Key(last'.path)].agent_id = last'.agent
                /\ store'[Key(last'.path)].expires_at > now
          /\ Denied(last')
             => /\ Holds(Key(last'.path))
                /\ now <= store[Key(last'.path)].expires_at
                /\ now <= store[Key(last'.path)].locked_at + 600 * 1000]_vars

\* createLock of a2 that took over the file whose lock a1 let run out: the
\* lock was removed by the isLocked of that call.
C20_Witness ==
    /\ last.op = "createLock"
    /\ last.res = "true"
    /\ last.del
    /\ last.agent = "a2"
    /\ now > 600 * 1000
    /\ Len(journal) = 3
    /\ journal[1].action = "lock_created" /\ journal[1].agent_id = "a1"
    /\ journal[2].action = "lock_released" /\ journal[2].agent_id = Null
    /\ journal[3].action = "lock_created" /\ journal[3].agent_id = "a2"
    /\ Holds(Key(last.path))
    /\ store[Key(last.path)].agent_id = "a2"

\* The place of a call in its operation (0: the operation is not running).
Rank(p) ==
    CASE p = "idle" -> 0
      [] p \in {"check", "rexists", "clist", "alist"} -> 1
      [] p \in {"reclaim", "rread", "cread", "aread"} -> 2
      [] p \in {"build", "runlink", "cunlink", "aunlink"} -> 3
      [] p = "open" -> 4
      [] p = "write" -> 5
      [] p = "rename" -> 6
      [] p = "log" -> 7

\* C21: createLock, releaseLock, cleanupExpiredLocks and releaseAllLocks, run
\* call by call next to the operations of the other process: every call of an
\* operation either ends it or takes it to a later call, never to an earlier
\* one or the same; a createLock that reads the live lock of another agent
\* returns false with that call; and every operation that has begun returns.
C21_Terminates ==
    /\ [][\A a \in Agents :
             /\ Running(a) => (pc'[a] = "idle" \/ Rank(pc'[a]) > Rank(pc[a]))
             /\ (/\ RCheck(a)
                 /\ lockIno # 0
                 /\ readLock(lockIno, inode, now) = "live"
                 /\ inode[lockIno].agent_id # a)
                => (pc'[a] = "idle" /\ ret'[a] = "false")]_vars
    /\ \A a \in Agents :
          (pc[a] # "idle") ~> (pc[a] = "idle" /\ ret[a] # "none")

\* createLock of a2 has returned false on the live lock of a1, whose createLock
\* is still running.
C21_Witness ==
    /\ pc["a2"] = "idle"
    /\ ret["a2"] = "false"
    /\ obs["a2"] = "live"
    /\ pc["a1"] = "log"
    /\ lockIno # 0
    /\ inode[lockIno].agent_id = "a1"

\* C22 as stated: the lock-file names of two different file paths differ, so that
\* createLock is denied only by a lock of the same file path, and releaseLock
\* leaves the locks of all other file paths as they are.
C22_NoCollision ==
    [][(last = Idle /\ last'.op \in {"createLock", "releaseLock"})
       => /\ Denied(last')
                => \E k \in DOMAIN store : store[k].file_path = last'.path
          /\ \A k \in DOMAIN store :
                store[k].file_path # last'.path
                => (k \in DOMAIN store' /\ store'[k] = store[k])]_vars

\* The agent id that the PreToolUse hook of the implementation of call o
\* resolves in the context of o.
AcquiringId(o) ==
    IF o.op \in {"main", "mainPost"}
    THEN ix_extractAgentId(o.ctx.ppid,
                           ContextInput(o.ctx, "Edit", o.path, "PreToolUse"))
    ELSE extractAgentId(o.ctx.env,
                        ContextInput(o.ctx, "Edit", o.path, "PreToolUse"))

\* C23: a PostToolUse hook resolves the agent id that the PreToolUse hook of
\* its implementation resolves in the same context (environment, agent_id and
\* session_id of the input, parent process); so when the lock of its file
\* names that agent (and, for index.js, has not expired), the hook releases
\* it: it reports the release and the lock file is gone.
C23_StableIdentity ==
    [][(last = Idle /\ last'.op \in {"broadcast", "mainPost"})
       => /\ last'.agent = AcquiringId(last')
          /\ (/\ Holds(Key(last'.path))
              /\ store[Key(last'.path)].agent_id = AcquiringId(last')
              /\ last'.op = "mainPost" => ~Expired(now, store[Key(last'.path)]))
             => /\ last'.res = "released"
                /\ last'.del
                /\ Key(last'.path) \notin DOMAIN store']_vars

\* The broadcaster released the lock taken under the agent id of the
\* environment, in a context whose input names another agent.
C23_Witness ==
    /\ last.op = "broadcast"
    /\ last.res = "released"
    /\ last.del
    /\ last.ctx.env = "a1"
    /\ last.ctx.agent_id = "a2"
    /\ last.agent = "a1"
    /\ ~Holds(Key(last.path))
    /\ journal # <<>>
    /\ journal[1].action = "lock_created"
    /\ journal[1].agent_id = "a1"
    /\ journal[1].file_path = last.path

LockEvents == {"lock_created", "lock_released", "lock_expired"}
HookOps == {"execute", "broadcast", "main", "mainPost"}

\* C24 as stated: for a file path that matches an exclusion pattern of the
\* Gatekeeper, the PreToolUse hook allows the operation, neither hook changes
\* the lock directory or appends a lock event for the path, and the
\* PostToolUse hook excludes the path as the PreToolUse hook does.
C24_ExcludedBypass ==
    [][(last = Idle /\ last'.op \in HookOps /\ shouldExcludeFile(last'.path))
       => /\ last'.n = 0
          /\ last'.op \in {"execute", "main"} => last'.res = "allow"
          /\ store' = store
          /\ \A i \in DOMAIN Appended :
                ~(Appended[i].action \in LockEvents
                  /\ Appended[i].file_path = last'.path)
          /\ last'.op = "broadcast" => ab_shouldExcludeFile(last'.path)]_vars

Parsable == {k \in DOMAIN store : JSONparseOK(store[k])}
Unparsable == (DOMAIN store) \ Parsable

\* C25: createLock on a file whose lock file cannot be parsed is granted and
\* leaves a parsable lock of the caller with a new lock_id in its place;
\* cleanupExpiredLocks, releaseAllLocks and getAllLocks leave the unparsable
\* lock files as they are and treat every parsable one as they do without them:
\* they remove exactly the expired ones (releaseAllLocks: the caller's) and
\* return the count of them (getAllLocks: of the locks left).
C25_UnparsableSkipped ==
    [][last = Idle
       => /\ (/\ last'.op = "createLock"
              /\ Key(last'.path) \in Unparsable)
             => /\ last'.res = "true"
                /\ Key(last'.path) \in DOMAIN store'
                /\ JSONparseOK(store'[Key(last'.path)])
                /\ store'[Key(last'.path)].agent_id = last'.agent
                /\ store'[Key(last'.path)].lock_id = nextLockId
                /\ \A k \in (DOMAIN store) \ {Key(last'.path)} :
                      k \in DOMAIN store' /\ store'[k] = store[k]
          /\ last'.op \in {"cleanupExpiredLocks", "releaseAllLocks", "getAllLocks"}
             => /\ DOMAIN store' \subseteq DOMAIN store
                /\ \A k \in DOMAIN store' : store'[k] = store[k]
                /\ Unparsable \subseteq DOMAIN store'
                /\ \A k \in Parsable :
                      k \notin DOMAIN store'
                      <=> IF last'.op = "releaseAllLocks"
                          THEN store[k].agent_id = last'.agent
                          ELSE Expired(now, store[k])
                /\ last'.n = IF last'.op = "getAllLocks"
                             THEN Cardinality(Parsable \cap DOMAIN store')
                             ELSE Cardinality(Parsable \ DOMAIN store')]_vars

\* cleanupExpiredLocks has removed an expired lock and left an unparsable lock
\* file where it was.
C25_Witness ==
    /\ last.op = "cleanupExpiredLocks"
    /\ last.n = 1
    /\ \E k \in DOMAIN store : ~JSONparseOK(store[k])
    /\ journal # <<>>
    /\ journal[Len(journal)].action = "lock_expired"

\* C26: a createLock call that is not denied and fails to write its lock file
\* returns a result other than the result createLock returns, in the same lock
\* directory, to an agent it denies for the live lock of another agent.
C26_WriteFailureSurfaced ==
    [][(/\ last = Idle
        /\ last'.op = "createLock"
        /\ last'.fault = "write"
        /\ ~ReadsForeignLive("write", now, last'.path, last'.agent))
       => \A b \in Agents :
             ReadsForeignLive("none", now, last'.path, b)
             => createLock(Cur, now, last'.path, b, Undefined, Undefined, 0).res
                # (last'.res = "true")]_vars

\* The minutes a denial reports are the least whole number of minutes that is
\* no less than d milliseconds.
RoundsUp(m, d) == (m - 1) * 60 * 1000 < d /\ d <= m * 60 * 1000

Alone(k) ==
    World([x \in (DOMAIN store) \cap {k} |-> store[x]], <<>>, nextLockId)
\* The content of the lock file k of a directory, Null when there is none.
FileOf(dir, k) == IF k \in DOMAIN dir THEN dir[k] ELSE Null

\* C28: what createLock and releaseLock return, and the lock file of the path
\* they leave, are those of the same call at the same time on a lock directory
\* that holds the lock file of the path alone, next to an empty feed (the
\* lock_id of a new lock is the one drawn by the call).
C28_Stateless ==
    [][(last = Idle /\ last'.op \in {"createLock", "releaseLock"})
       => LET k == Key(last'.path)
              r == IF last'.op = "createLock"
                   THEN createLock(Alone(k), now, last'.path, last'.agent,
                                   Undefined, Undefined, last'.n)
                   ELSE releaseLock(Alone(k), now, last'.path, last'.agent)
          IN  /\ (last'.res = "true") = r.res
              /\ FileOf(store', k) = FileOf(r.w.store, k)]_vars

\* createLock has denied an agent for the live lock of another while the lock
\* directory holds the lock of a second file and the feed has entries.
C28_Witness ==
    /\ last.op = "createLock"
    /\ last.res = "false"
    /\ Cardinality(DOMAIN store) = 2
    /\ Holds(Key(last.path))
    /\ store[Key(last.path)].agent_id # last.agent
    /\ Len(journal) >= 2

\* The lock files the step removes.
Unlinked == (DOMAIN store) \ (DOMAIN store')

\* C29: forceRelease of a file that has a lock file removes it, whoever owns
\* the lock and whether or not it has expired, leaves every other lock file as
\* it is and appends one lock_released entry, which names no agent.  The
\* PostToolUse hooks release with an agent id that is never empty, and remove
\* no lock file but the one of their file: the activity broadcaster only when
\* its lock is the agent's, index.js only when it is the agent's or expired
\* (index.js also sweeps the expired locks of other files).
C29_ForceRelease ==
    [][last = Idle
       => /\ (last'.op = "forceRelease" /\ Holds(Key(last'.path)))
             => /\ last'.res = "true"
                /\ Unlinked = {Key(last'.path)}
                /\ \A k \in DOMAIN store' : store'[k] = store[k]
                /\ Appended = <<LockEntry("lock_released", Null, last'.path)>>
          /\ last'.op \in {"broadcast", "mainPost"}
             => /\ ~Falsy(last'.agent)
                /\ \A k \in DOMAIN store' : store'[k] = store[k]
                /\ \A k \in Unlinked :
                      \/ k = Key(last'.path) /\ store[k].agent_id = last'.agent
                      \/ last'.op = "mainPost" /\ Expired(now, store[k])]_vars

\* forceRelease has removed a lock and the feed ends with its entry.
C29_Witness ==
    /\ last.op = "forceRelease"
    /\ last.del
    /\ ~Holds(Key(last.path))
    /\ journal # <<>>
    /\ journal[Len(journal)] = LockEntry("lock_released", Null, last.path)
    /\ \E i \in 1..Len(journal) :
          journal[i].action = "lock_created" /\ journal[i].file_path = last.path

\* The PostToolUse hook of the step finds no lock of its agent on its file.
NothingToRelease ==
    \/ ~Holds(Key(last'.path))
    \/ store[Key(last'.path)].agent_id # last'.agent

\* C30 (as the code has it): a PostToolUse hook exits with code 0 whether or
\* not it released a lock; when it finds no lock of its agent on its file, it
\* writes no lock file and removes none that has not expired: the activity
\* broadcaster removes none at all, index.js the expired ones.
C30_PostNeverBlocks ==
    [][(last = Idle /\ last'.op \in {"broadcast", "mainPost"})
       => /\ last'.n = 0
          /\ NothingToRelease
             => /\ DOMAIN store' \subseteq DOMAIN store
                /\ \A k \in DOMAIN store' : store'[k] = store[k]
                /\ \A k \in Unlinked :
                      last'.op = "mainPost" /\ Expired(now, store[k])]_vars

\* index.js has run as the PostToolUse hook of an agent on a file that another
\* agent holds, and exited with code 0 leaving the lock.
C30_Witness ==
    /\ last.op = "mainPost"
    /\ last.res = "no lock"
    /\ last.n = 0
    /\ Holds(Key(last.path))
    /\ store[Key(last.path)].agent_id # last.agent
    /\ ~Expired(now, store[Key(last.path)])

\* C30 (as stated): a PostToolUse hook exits with code 0, and one that finds
\* no lock of its agent on its file leaves every lock file as it is.
C30_NoRecordChanged ==
    [][(last = Idle /\ last'.op \in {"broadcast", "mainPost"})
       => /\ last'.n = 0
          /\ NothingToRelease => store' = store]_vars

LockFields == {"agent_id", "file_path", "operation", "session_id",
               "locked_at", "expires_at", "lock_id"}

\* C31: after a PreToolUse hook has created a lock, the lock that isLocked
\* reads back for the file has all of agent_id, file_path, operation,
\* session_id, locked_at, expires_at and lock_id, with the agent, the path,
\* the time in milliseconds and the lock_id of the call, the session id of the
\* input ("unknown" for none) and an expires_at one lease after locked_at.
C31_RoundTrip ==
    [][(/\ last = Idle
        /\ last'.op \in {"execute", "main"}
        /\ last'.res = "acquired")
       => LET after == World(store', journal', nextLockId')
              e == IF last'.op = "execute"
                   THEN isLocked(after, now, last'.path)
                   ELSE ix_isLocked(after, now, last'.path)
          IN  /\ e.found
              /\ DOMAIN e.lock = LockFields
              /\ e.lock.agent_id = last'.agent
              /\ e.lock.file_path = last'.path
              /\ e.lock.session_id = Default(last'.ctx.session_id, "unknown")
              /\ e.lock.locked_at = now
              /\ e.lock.expires_at
                    = now + (IF last'.op = "execute" THEN defaultTimeout
                             ELSE lockTimeout * 1000)
              /\ e.lock.lock_id = nextLockId]_vars

\* C32: the renameSync of a createLock that goes on to return true gives the
\* lock file the record that this createLock built (its agent, its lock_id);
\* and a createLock whose renameSync fails, so that it returns false, does not
\* leave the record it built in the lock file.
C32_GrantedOwnsRecord ==
    [][\A a \in Agents :
          /\ (pc[a] = "rename" /\ pc'[a] = "log")
             => /\ lockIno' # 0
                /\ inode'[lockIno'] = JSONstringify(lk[a])
          /\ (pc[a] = "rename" /\ pc'[a] = "idle" /\ ret'[a] = "false")
             => ~(lockIno' # 0 /\ inode'[lockIno'] = JSONstringify(lk[a]))]_vars

\* The stages at which an operation unlinks the lock file.
UnlinkStages == {"reclaim", "runlink", "cunlink", "aunlink"}

\* C33: the lock file that an operation unlinks holds what the operation read
\* and judged: the sweeps unlink the very record they read, releaseLock a lock
\* of its agent, and the reclaim of isLocked and cleanupExpiredLocks a lock
\* that has expired.
C33_DeletesWhatItRead ==
    [][\A a \in Agents :
          (/\ pc[a] \in UnlinkStages
           /\ pc'[a] # pc[a]
           /\ lockIno # 0
           /\ lockIno' = 0)
          => /\ JSONparseOK(inode[lockIno])
             /\ pc[a] \in {"cunlink", "aunlink"} => inode[lockIno] = lk[a]
             /\ pc[a] = "runlink" => inode[lockIno].agent_id = a
             /\ pc[a] \in {"reclaim", "cunlink"}
                => Expired(now, inode[lockIno])]_vars

\* The lock events of the feed about file p, in the order of the feed.
LockLog(p) ==
    SelectSeq(journal, LAMBDA e : e.action \in LockEvents /\ e.file_path = p)

\* C34: in the feed the hooks and the administrator's commands leave, the lock
\* events of each file alternate: the first, third, ... is a lock_created,
\* the second, fourth, ... a lock_released or a lock_expired.
C34_Alternates ==
    \A p \in HookPaths \cup Paths :
       \A i \in 1..Len(LockLog(p)) :
          IF i % 2 = 1
          THEN LockLog(p)[i].action = "lock_created"
          ELSE LockLog(p)[i].action \in {"lock_released", "lock_expired"}

\* C35: createLock, releaseLock and the hooks on a file write no lock file but
\* that of the file, leave every lock of another file that is live (now <
\* expires_at) as it is, and remove a lock of another file only when it has
\* expired (now > expires_at).
C35_OtherKeysKept ==
    [][(/\ last = Idle
        /\ last'.op \in {"createLock", "releaseLock", "execute", "main",
                         "mainPost"})
       => /\ DOMAIN store' \subseteq (DOMAIN store) \cup {Key(last'.path)}
          /\ \A k \in (DOMAIN store) \ {Key(last'.path)} :
                /\ k \in DOMAIN store' => store'[k] = store[k]
                /\ LiveAt(now, store[k]) => k \in DOMAIN store'
                /\ k \notin DOMAIN store' => Expired(now, store[k])]_vars

\* A PreToolUse hook has acquired the lock of a file while the lock of another
\* file, acquired earlier by another agent, is live and in place.
C35_Witness ==
    /\ last.op \in {"execute", "main"}
    /\ last.res = "acquired"
    /\ \E k \in (DOMAIN store) \ {Key(last.path)} :
          /\ LiveAt(now, store[k])
          /\ store[k].locked_at < now
          /\ store[k].agent_id # last.agent

\* The live locks of working directory d: the lock-file name and the owner.
LiveLocks(d) ==
    {<<k, Dir(store, d)[k].agent_id>> :
        k \in {x \in DOMAIN Dir(store, d) : ~Expired(now, Dir(store, d)[x])}}
\* The same for the liveness of the specification.
LiveLocksStrict(d) ==
    {<<k, Dir(store, d)[k].agent_id>> :
        k \in {x \in DOMAIN Dir(store, d) : LiveAt(now, Dir(store, d)[x])}}

====
